---------------------------- MODULE Spec2Model ----------------------------
(***************************************************************************)
(* Model of the LocusOfYou onboarding client: the slider input widget, the *)
(* configuration-driven onboarding step sequencers and their timers.       *)
(*                                                                         *)
(* Time is counted in ticks of 100 ms: every setTimeout delay of the       *)
(* source is a multiple of 100 ms.                                         *)
(***************************************************************************)
EXTENDS Integers, Sequences, FiniteSets, TLC

Max(a, b) == IF a >= b THEN a ELSE b
Min(a, b) == IF a <= b THEN a ELSE b

(***************************************************************************)
(* SLIDER INPUT WIDGET                                                     *)
(*                                                                         *)
(* Four implementations of the drag-to-value mapping live in the source:   *)
(*   "gesture"      Gesture.Pan with a measured shared-value width         *)
(*   "responderRef" PanResponder kept in a ref, measured width in a ref    *)
(*   "fixedWidth"   PanResponder, width = window width - 128               *)
(*   "inline"       SliderComponent of app/onboarding.tsx, width - 96      *)
(* Pixel positions are integers; (clampedX / w) * 100 is computed exactly  *)
(* (as a rational) and rounded as Math.round does, half towards +infinity. *)
(***************************************************************************)

\* How far beyond either end of the track a drag may move the pointer.
Over == 2
\* Widest measured track (gesture and responderRef variants).
MaxTrack == 8

\* width - 128 and locationX - 64 / moveX - 64 of the fixedWidth variant
CardPaddingBoth == 128
CardPadding == 64
\* width - 96 and moveX - 48 of the inline SliderComponent
InlinePaddingBoth == 96
InlinePadding == 48

SliderVariants == {"gesture", "responderRef", "fixedWidth", "inline"}

\* A JavaScript number as far as the slider needs it: an integer or NaN.
Num(n) == [nan |-> FALSE, n |-> n]
NaN == [nan |-> TRUE, n |-> 0]

\* Math.max(0, Math.min(w, x))
Clamp(w, x) == Max(0, Min(w, x))

\* Math.round((clampedX / w) * 100): 0 / 0 is NaN, and Math.round(NaN) is NaN.
\* clampedX is never positive when w is 0, so Infinity does not arise.
RoundPercent(clampedX, w) ==
    IF w = 0 THEN NaN ELSE Num((200 * clampedX + w) \div (2 * w))

VARIABLES
    sl_variant,       \* which implementation is mounted
    sl_layoutWidth,   \* the width the layout gives the slider wrapper
    sl_sliderWidth,   \* sliderWidth as the handlers read it (0 until measured)
    sl_valueAtGrant,  \* valueAtGrant.current (responderRef)
    sl_touch,         \* the touch in progress: [down, granted, x0]; x0 is where
                      \* it was granted (read by responderRef only, 0 elsewhere)
    sl_last,          \* the last call of onValueChange: [some, on, x, w, v],
                      \* for a pointer at local offset x, sliderWidth being w
    sl_kept           \* an earlier call of onValueChange, kept for comparison

slVars == <<sl_variant, sl_layoutWidth, sl_sliderWidth, sl_valueAtGrant,
            sl_touch, sl_last, sl_kept>>

\* The state of the onboarding screen (the sequencers below).
VARIABLES
    sq_impl,              \* which OnboardingScreen is mounted
    sq_mounted,           \* FALSE once router.back() has popped the screen
    sq_fetch,             \* the configuration request: "pending" or its outcome
    sq_onboardingConfig,  \* the steps of the configuration loaded, NoConfig while null
    sq_loading,           \* isLoading / loading
    sq_error,             \* Null or the error message
    sq_currentStepId,
    sq_stepHistory,       \* history implementation only
    sq_showContent,
    sq_interactionState,
    sq_onboardingData,
    sq_timers,            \* pending setTimeout callbacks, soonest first
    sq_routerBack,        \* calls of router.back()
    sq_chat,              \* the params of every router.push to /chat, in order,
                          \* each with the record held when its press was accepted
    sq_pressed,           \* the user pressed choice, Continue, submit or back
                          \* during this visit to the current step
    sq_answered,          \* steps on which the user pressed choice, Continue or submit
    sq_user,              \* "once": answers every step once; "wanders"
    sq_extra,             \* presses spent out of MaxExtra
    sq_fresh              \* no time has passed since the step on screen changed

sqState == <<sq_onboardingConfig, sq_loading, sq_error, sq_currentStepId,
             sq_stepHistory, sq_showContent, sq_interactionState, sq_onboardingData>>
sqVars == <<sq_user, sq_impl, sq_mounted, sq_fetch, sq_onboardingConfig, sq_loading, sq_error,
            sq_currentStepId, sq_stepHistory, sq_showContent, sq_interactionState,
            sq_onboardingData, sq_timers, sq_routerBack, sq_chat, sq_pressed,
            sq_answered, sq_extra, sq_fresh>>

\* The state of the onboarding screens that share the answer record through
\* the OnboardingProvider (the screens under app/onboarding/).
VARIABLES
    ob_onboardingData,  \* the provider's answer record
    ob_stack,           \* the mounted onboarding screens, the one on top last
    ob_style,           \* coachingStyle of the index route, Null when absent
    ob_entries,         \* how many times the index screen has been entered
    ob_mounts,          \* how many screens have been mounted (the next id)
    ob_timers,          \* pending setTimeout callbacks, soonest first
    ob_chat,            \* the params of every router.replace to /chat, in order
    ob_answered,        \* routes on which the user pressed a choice, Continue
                        \* or submit since the index screen was entered
    ob_extra,           \* presses the user has left for routes answered before
    ob_backs,           \* presses of a header's back button
    ob_fresh            \* no time has passed since the screen on top changed

obVars == <<ob_onboardingData, ob_stack, ob_style, ob_entries, ob_mounts,
            ob_timers, ob_chat, ob_answered, ob_extra, ob_backs, ob_fresh>>

\* The state of one mounted OnboardingChoiceButtons and what it has called
\* on its parent.
VARIABLES
    cb_mounted,         \* the component is mounted
    cb_selectedChoice,  \* selectedChoice, Null until a press is accepted
    cb_touch,           \* per button: "up", "in" (finger down), "pressed"
                        \* (onPress came first), "out" (onPressOut came first)
    cb_timers,          \* pending setTimeout callbacks, soonest first
    cb_calls,           \* the calls of the parent's callbacks, in order
    cb_first            \* the choice of the first press handled, Null before

cbVars == <<cb_mounted, cb_selectedChoice, cb_touch, cb_timers, cb_calls, cb_first>>

\* The auto-advance of the OnboardingSliderCard that has onAutoAdvance.
VARIABLES
    aa_mounted,           \* the card is mounted
    aa_disabled,          \* the disabled prop
    aa_hasInteracted,     \* hasInteracted
    aa_touching,          \* a gesture is in progress
    aa_autoAdvanceTimer,  \* autoAdvanceTimer.current: 0 for null, or a timer id
    aa_timers,            \* pending setTimeout callbacks, soonest first
    aa_releases,          \* how many gestures have been released
    aa_advances,          \* how many times onAutoAdvance has been called
    aa_sinceRelease,      \* calls of onAutoAdvance since the last release
    aa_afterUnmount       \* onAutoAdvance has been called after the unmount

aaVars == <<aa_mounted, aa_disabled, aa_hasInteracted, aa_touching,
            aa_autoAdvanceTimer, aa_timers, aa_releases, aa_advances,
            aa_sinceRelease, aa_afterUnmount>>

\* The chat screen.
VARIABLES
    ch_onboardingData,  \* the parsed onboardingData param: [some, currentFocus]
    ch_initializedRef,  \* initializedRef.current
    ch_messages,        \* messages
    ch_inputText,       \* inputText
    ch_timers,          \* pending setTimeout callbacks, soonest first
    ch_now,             \* Date.now() of the next send
    ch_presses,         \* presses of the send button
    ch_computed         \* the response computed for each placeholder, by id

chVars == <<ch_onboardingData, ch_initializedRef, ch_messages, ch_inputText,
            ch_timers, ch_now, ch_presses, ch_computed>>

wgVars == <<cbVars, aaVars, chVars>>

NoTouch == [down |-> FALSE, granted |-> FALSE, x0 |-> 0]
NoReport == [some |-> FALSE, on |-> "none", x |-> 0, w |-> 0, v |-> Num(0)]

\* The window widths tried for the variants that derive the track from the
\* window: a track of MaxTrack pixels and one wider than the 64 px offset.
FixedTracks == {MaxTrack, CardPadding + MaxTrack}

\* const sliderWidth = width - 128 (fixedWidth); width - 96 (inline)
FixedSliderWidth(variant, windowWidth) ==
    IF variant = "fixedWidth" THEN windowWidth - CardPaddingBoth
    ELSE windowWidth - InlinePaddingBoth

SliderInit ==
    /\ sl_variant \in SliderVariants
    /\ \/ /\ sl_variant \in {"gesture", "responderRef"}
          /\ sl_layoutWidth \in 1..MaxTrack
          /\ sl_sliderWidth = 0
       \/ /\ sl_variant = "fixedWidth"
          /\ \E t \in FixedTracks :
                /\ sl_layoutWidth = t
                /\ sl_sliderWidth = FixedSliderWidth("fixedWidth", t + CardPaddingBoth)
       \/ /\ sl_variant = "inline"
          /\ \E t \in FixedTracks :
                /\ sl_layoutWidth = t
                /\ sl_sliderWidth = FixedSliderWidth("inline", t + InlinePaddingBoth)
    /\ sl_valueAtGrant = 0
    /\ sl_touch = NoTouch
    /\ sl_last = NoReport
    /\ sl_kept = NoReport

\* onValueChange(newValue), called for a pointer at local offset x.  The
\* report replaces sl_last; the report it replaces is kept, or the one kept
\* before stays, so that any earlier report can meet any later one.
onValueChange(on, x, v) ==
    /\ sl_last' = [some |-> TRUE, on |-> on, x |-> x, w |-> sl_sliderWidth, v |-> v]
    /\ sl_kept' \in {sl_kept, sl_last}

\* handleLayout: the measured width of the wrapper arrives.
handleLayout ==
    /\ sl_variant \in {"gesture", "responderRef"}
    /\ sl_sliderWidth # sl_layoutWidth
    /\ sl_sliderWidth' = sl_layoutWidth
    /\ UNCHANGED <<wgVars, sqVars, obVars, sl_variant, sl_layoutWidth, sl_valueAtGrant, sl_touch, sl_last, sl_kept>>

\* Gesture.Pan().onStart: no guard on sliderWidth.value.
panGesture_onStart(x) ==
    /\ sl_variant = "gesture"
    /\ ~sl_touch.down
    /\ sl_touch' = [down |-> TRUE, granted |-> TRUE, x0 |-> 0]
    /\ onValueChange("start", x, RoundPercent(Clamp(sl_sliderWidth, x), sl_sliderWidth))
    /\ UNCHANGED <<wgVars, sqVars, obVars, sl_variant, sl_layoutWidth, sl_sliderWidth, sl_valueAtGrant>>

\* Gesture.Pan().onUpdate: if (sliderWidth.value <= 0) return;
panGesture_onUpdate(x) ==
    /\ sl_variant = "gesture"
    /\ sl_touch.down
    /\ IF sl_sliderWidth <= 0
       THEN UNCHANGED <<sl_last, sl_kept>>
       ELSE onValueChange("move", x, RoundPercent(Clamp(sl_sliderWidth, x), sl_sliderWidth))
    /\ UNCHANGED <<wgVars, sqVars, obVars, sl_variant, sl_layoutWidth, sl_sliderWidth, sl_valueAtGrant, sl_touch>>

\* responderRef: a touch goes down; onStartShouldSetPanResponder grants it
\* only when sliderWidthRef.current > 0, and onPanResponderGrant then stores
\* the clamped locationX and reports.
R_onPanResponderGrant(x) ==
    /\ sl_variant = "responderRef"
    /\ ~sl_touch.down
    /\ IF sl_sliderWidth > 0
       THEN /\ sl_touch' = [down |-> TRUE, granted |-> TRUE, x0 |-> x]
            /\ sl_valueAtGrant' = Clamp(sl_sliderWidth, x)
            /\ onValueChange("start", x,
                   RoundPercent(Clamp(sl_sliderWidth, x), sl_sliderWidth))
       ELSE /\ sl_touch' = [down |-> TRUE, granted |-> FALSE, x0 |-> 0]
            /\ UNCHANGED <<sl_valueAtGrant, sl_last, sl_kept>>
    /\ UNCHANGED <<wgVars, sqVars, obVars, sl_variant, sl_layoutWidth, sl_sliderWidth>>

\* responderRef: a move.  A touch that was not granted at its start is granted
\* by onMoveShouldSetPanResponder once the width is known (onPanResponderGrant
\* runs with the move's locationX and gestureState.dx restarts at 0);
\* a granted touch reports valueAtGrant.current + gestureState.dx.
R_onPanResponderMove(x) ==
    /\ sl_variant = "responderRef"
    /\ sl_touch.down
    /\ IF ~sl_touch.granted
       THEN IF sl_sliderWidth > 0 /\ x \in 0..sl_layoutWidth
            THEN /\ sl_touch' = [down |-> TRUE, granted |-> TRUE, x0 |-> x]
                 /\ sl_valueAtGrant' = Clamp(sl_sliderWidth, x)
                 /\ onValueChange("start", x,
                        RoundPercent(Clamp(sl_sliderWidth, x), sl_sliderWidth))
            ELSE UNCHANGED <<sl_touch, sl_valueAtGrant, sl_last, sl_kept>>
       ELSE /\ IF sl_sliderWidth <= 0
               THEN UNCHANGED <<sl_last, sl_kept>>
               ELSE LET dx == x - sl_touch.x0
                        newPosition == Clamp(sl_sliderWidth, sl_valueAtGrant + dx)
                    IN  onValueChange("move", x, RoundPercent(newPosition, sl_sliderWidth))
            /\ UNCHANGED <<sl_touch, sl_valueAtGrant>>
    /\ UNCHANGED <<wgVars, sqVars, obVars, sl_variant, sl_layoutWidth, sl_sliderWidth>>

\* fixedWidth: onPanResponderGrant reads evt.nativeEvent.locationX - 64.
F_onPanResponderGrant(x) ==
    /\ sl_variant = "fixedWidth"
    /\ ~sl_touch.down
    /\ sl_touch' = [down |-> TRUE, granted |-> TRUE, x0 |-> 0]
    /\ LET locationX == x
           touchX == locationX - CardPadding
           clampedX == Clamp(sl_sliderWidth, touchX)
       IN  onValueChange("start", x, RoundPercent(clampedX, sl_sliderWidth))
    /\ UNCHANGED <<wgVars, sqVars, obVars, sl_variant, sl_layoutWidth, sl_sliderWidth, sl_valueAtGrant>>

\* fixedWidth: onPanResponderMove reads gestureState.moveX - 64; moveX is a
\* page coordinate, and the wrapper starts 64 px from the window's left edge
\* (the width the code takes for the track, width - 128, says so).
F_onPanResponderMove(x) ==
    /\ sl_variant = "fixedWidth"
    /\ sl_touch.down
    /\ LET moveX == x + CardPadding
           newPosition == Clamp(sl_sliderWidth, moveX - CardPadding)
       IN  onValueChange("move", x, RoundPercent(newPosition, sl_sliderWidth))
    /\ UNCHANGED <<wgVars, sqVars, obVars, sl_variant, sl_layoutWidth, sl_sliderWidth, sl_valueAtGrant, sl_touch>>

\* inline SliderComponent: no onPanResponderGrant; a touch just goes down.
I_touchStart(x) ==
    /\ sl_variant = "inline"
    /\ ~sl_touch.down
    /\ sl_touch' = [down |-> TRUE, granted |-> TRUE, x0 |-> 0]
    /\ UNCHANGED <<wgVars, sqVars, obVars, sl_variant, sl_layoutWidth, sl_sliderWidth, sl_valueAtGrant, sl_last, sl_kept>>

\* inline SliderComponent: onPanResponderMove reads gestureState.moveX - 48.
I_onPanResponderMove(x) ==
    /\ sl_variant = "inline"
    /\ sl_touch.down
    /\ LET moveX == x + InlinePadding
           newPosition == Clamp(sl_sliderWidth, moveX - InlinePadding)
       IN  onValueChange("move", x, RoundPercent(newPosition, sl_sliderWidth))
    /\ UNCHANGED <<wgVars, sqVars, obVars, sl_variant, sl_layoutWidth, sl_sliderWidth, sl_valueAtGrant, sl_touch>>

\* onEnd / onPanResponderRelease: the touch is lifted; no value is reported.
onRelease ==
    /\ sl_touch.down
    /\ sl_touch' = NoTouch
    /\ UNCHANGED <<wgVars, sqVars, obVars, sl_variant, sl_layoutWidth, sl_sliderWidth, sl_valueAtGrant, sl_last, sl_kept>>

\* A touch starts inside the wrapper; a drag may leave it by Over pixels.
StartXs == 0..sl_layoutWidth
MoveXs == (0 - Over)..(sl_layoutWidth + Over)

SliderNext ==
    \/ handleLayout
    \/ \E x \in StartXs : panGesture_onStart(x)
    \/ \E x \in MoveXs : panGesture_onUpdate(x)
    \/ \E x \in StartXs : R_onPanResponderGrant(x)
    \/ \E x \in MoveXs : R_onPanResponderMove(x)
    \/ \E x \in StartXs : F_onPanResponderGrant(x)
    \/ \E x \in MoveXs : F_onPanResponderMove(x)
    \/ \E x \in StartXs : I_touchStart(x)
    \/ \E x \in MoveXs : I_onPanResponderMove(x)
    \/ onRelease

(***************************************************************************)
(* CONFIGURATION-DRIVEN ONBOARDING SEQUENCERS                              *)
(*                                                                         *)
(* Two OnboardingScreen implementations walk a step list fetched from the  *)
(* server:                                                                 *)
(*   "linked"   steps carry nextStep and previousStep (/api/onboarding)     *)
(*   "history"  steps carry nextStep and autoProgress; going back pops a   *)
(*              stepHistory stack (/api/onboarding_questions)              *)
(* Both keep the same React state; sq_impl says which one is mounted.      *)
(***************************************************************************)

Null == "null"
NoStep == "none"

\* Longest text the user types into the final input (characters " " and "a").
MaxTextLen == 1
\* A user who wanders presses back, or presses again on a step they have
\* answered, at most MaxExtra times, and answers at most MaxWander steps.
MaxExtra == 2
MaxWander == 2

\* setTimeout delays of the source, in ticks of 100 ms.
ShowContentDelay == 5
SwapDelay == 4
ChoiceDelay == 3
SliderDelay == 5
SubmitDelay == 3
AutoDelay == 10
MessageTypingDelay == 12
TransitionTypingDelay == 15

Impls == {"linked", "history"}

\* One step descriptor.  delay is the delay of the step's last message (or of
\* its transition banner); auto / autoDelay are autoProgress /
\* autoProgressDelay of the history configuration.
Step(id, type, field, next, prev, delay, auto, autoDelay) ==
    [id |-> id, type |-> type, field |-> field, nextStep |-> next,
     previousStep |-> prev, delay |-> delay, autoProgress |-> auto,
     autoProgressDelay |-> autoDelay]

\* GET of /api/onboarding: steps
LinkedSteps == <<
    Step("initialMessages", "messages", Null, "conscientiousnessQuestion", NoStep, 30, FALSE, 0),
    Step("conscientiousnessQuestion", "cardChoice", "conscientiousness", "transitionToRegulatory", "initialMessages", 0, FALSE, 0),
    Step("transitionToRegulatory", "transitionMessage", Null, "regulatoryFocusQuestion", "conscientiousnessQuestion", 0, FALSE, 0),
    Step("regulatoryFocusQuestion", "cardChoice", "regulatoryFocus", "transitionToLocus", "transitionToRegulatory", 0, FALSE, 0),
    Step("transitionToLocus", "transitionMessage", Null, "locusOfControlQuestion", "regulatoryFocusQuestion", 0, FALSE, 0),
    Step("locusOfControlQuestion", "cardChoice", "locusOfControl", "transitionToMindset", "transitionToLocus", 0, FALSE, 0),
    Step("transitionToMindset", "transitionMessage", Null, "mindsetQuestion", "locusOfControlQuestion", 0, FALSE, 0),
    Step("mindsetQuestion", "cardChoice", "mindset", "transitionToSliders", "transitionToMindset", 0, FALSE, 0),
    Step("transitionToSliders", "transitionMessage", Null, "extraversionSlider", "mindsetQuestion", 0, FALSE, 0),
    Step("extraversionSlider", "slider", "extraversion", "transitionToAgreeableness", "transitionToSliders", 0, FALSE, 0),
    Step("transitionToAgreeableness", "transitionMessage", Null, "agreeablenessSlider", "extraversionSlider", 0, FALSE, 0),
    Step("agreeablenessSlider", "slider", "agreeableness", "finalMessagesAndInput", "transitionToAgreeableness", 0, FALSE, 0),
    Step("finalMessagesAndInput", "finalInput", "currentFocus", NoStep, "agreeablenessSlider", 24, FALSE, 0) >>

\* GET of /api/onboarding_questions: config.steps
HistorySteps == <<
    Step("welcome_messages", "messages", Null, "conscientiousness_question", NoStep, 30, TRUE, 42),
    Step("conscientiousness_question", "choice_question", "conscientiousness", "transition_to_regulatory", NoStep, 0, FALSE, 0),
    Step("transition_to_regulatory", "transition", Null, "regulatory_focus_question", NoStep, 0, TRUE, 10),
    Step("regulatory_focus_question", "choice_question", "regulatoryFocus", "transition_to_locus", NoStep, 0, FALSE, 0),
    Step("transition_to_locus", "transition", Null, "locus_of_control_question", NoStep, 0, TRUE, 8),
    Step("locus_of_control_question", "choice_question", "locusOfControl", "transition_to_mindset", NoStep, 0, FALSE, 0),
    Step("transition_to_mindset", "transition", Null, "mindset_question", NoStep, 0, TRUE, 8),
    Step("mindset_question", "choice_question", "mindset", "transition_to_sliders", NoStep, 0, FALSE, 0),
    Step("transition_to_sliders", "transition", Null, "extraversion_slider", NoStep, 0, TRUE, 12),
    Step("extraversion_slider", "slider", "extraversion", "transition_to_agreeableness", NoStep, 0, FALSE, 0),
    Step("transition_to_agreeableness", "transition", Null, "agreeableness_slider", NoStep, 0, TRUE, 8),
    Step("agreeableness_slider", "slider", "agreeableness", "final_input", NoStep, 0, FALSE, 0),
    Step("final_input", "messages", Null, "text_input_step", NoStep, 24, TRUE, 36),
    Step("text_input_step", "text_input", "currentFocus", NoStep, NoStep, 0, FALSE, 0) >>

\* onboardingConfig while no configuration has loaded (null): no steps.
NoConfig == <<>>

\* The configurations the request may bring: the repository's, and three
\* shorter ones that end in a step whose nextStep is absent or names no step
\* ("nowhere"); the last of them gives the first step another id.
Configs == {"repository", "nextAbsent", "nextUnknown", "otherFirst"}

\* The shorter configurations keep the first four steps: the second choice
\* step, which follows the first transition step, is their last.
LinkedNextAbsent ==
    <<LinkedSteps[1], LinkedSteps[2], LinkedSteps[3],
      [LinkedSteps[4] EXCEPT !.nextStep = NoStep]>>
LinkedNextUnknown ==
    <<LinkedSteps[1], LinkedSteps[2], LinkedSteps[3],
      [LinkedSteps[4] EXCEPT !.nextStep = "nowhere"]>>
LinkedOtherFirst ==
    <<[LinkedSteps[1] EXCEPT !.id = "hello"],
      [LinkedSteps[2] EXCEPT !.previousStep = "hello"],
      LinkedSteps[3], [LinkedSteps[4] EXCEPT !.nextStep = NoStep]>>
HistoryNextAbsent ==
    <<HistorySteps[1], HistorySteps[2], HistorySteps[3],
      [HistorySteps[4] EXCEPT !.nextStep = NoStep]>>
HistoryNextUnknown ==
    <<HistorySteps[1], HistorySteps[2], HistorySteps[3],
      [HistorySteps[4] EXCEPT !.nextStep = "nowhere"]>>
HistoryOtherFirst ==
    <<[HistorySteps[1] EXCEPT !.id = "hello"],
      HistorySteps[2], HistorySteps[3], [HistorySteps[4] EXCEPT !.nextStep = NoStep]>>

\* A route that serves four steps, the last naming a step that is not there.
RepositorySteps_unknownNext(impl) ==
    IF impl = "linked" THEN LinkedNextUnknown ELSE HistoryNextUnknown

\* The step list the repository's route serves to an implementation.
RepositorySteps(impl) == IF impl = "linked" THEN LinkedSteps ELSE HistorySteps

\* The step list a configuration brings to an implementation.
Served(impl, config) ==
    IF config = "repository" THEN RepositorySteps(impl)
    ELSE IF impl = "linked"
    THEN CASE config = "nextAbsent" -> LinkedNextAbsent
           [] config = "nextUnknown" -> LinkedNextUnknown
           [] OTHER -> LinkedOtherFirst
    ELSE CASE config = "nextAbsent" -> HistoryNextAbsent
           [] config = "nextUnknown" -> HistoryNextUnknown
           [] OTHER -> HistoryOtherFirst

\* onboardingConfig.steps
Steps(impl) ==
    IF sq_onboardingConfig = NoConfig THEN RepositorySteps(impl) ELSE sq_onboardingConfig
StepIds(impl) == {Steps(impl)[i].id : i \in 1..Len(Steps(impl))}

\* onboardingConfig.steps.find(step => step.id === id)
FindStep(impl, id) ==
    Steps(impl)[CHOOSE i \in 1..Len(Steps(impl)) : Steps(impl)[i].id = id]

\* choices[].value of the choice step that writes field
ChoiceValues(field) ==
    CASE field = "conscientiousness" -> {"planner", "adapter"}
      [] field = "regulatoryFocus" -> {"promotion", "prevention"}
      [] field = "locusOfControl" -> {"internal", "external"}
      [] field = "mindset" -> {"fixed", "growth"}
      [] OTHER -> {}

MessageTypes == {"messages", "finalInput"}
TransitionTypes == {"transitionMessage", "transition"}
ChoiceTypes == {"cardChoice", "choice_question"}
TextTypes == {"finalInput", "text_input"}
InteractiveTypes == ChoiceTypes \cup {"slider"} \cup TextTypes

\* The values a slider card reports while the user drags it: the right end
\* of the track, and what a touch on a card not yet measured is reported as.
SliderInputs == {Num(100), NaN}

\* Texts of the final input: sequences of " " and "a".
Texts == UNION {[1..n -> {" ", "a"}] : n \in 0..MaxTextLen}

\* String.prototype.trim
RECURSIVE TrimStart(_)
TrimStart(t) == IF t # <<>> /\ Head(t) = " " THEN TrimStart(Tail(t)) ELSE t
RECURSIVE TrimEnd(_)
TrimEnd(t) ==
    IF t # <<>> /\ t[Len(t)] = " " THEN TrimEnd(SubSeq(t, 1, Len(t) - 1)) ELSE t
Trim(t) == TrimEnd(TrimStart(t))
\* a test of a string that every string passes
Truthy_always(t) == TRUE
\* a string is truthy when it is not empty
Truthy(t) == t # <<>>

\* useState<OnboardingData>({...}): the record the screen starts with
InitialData(coachingStyle) ==
    [coachingStyle |-> IF coachingStyle = Null THEN "adapter" ELSE coachingStyle,
     conscientiousness |-> Null, regulatoryFocus |-> Null,
     locusOfControl |-> Null, mindset |-> Null,
     extraversion |-> Num(50), agreeableness |-> Num(50), currentFocus |-> <<>>]

\* An initialData whose sliders start at the left end.
ServerInitialData_leftEnd ==
    [coachingStyle |-> "", conscientiousness |-> Null, regulatoryFocus |-> Null,
     locusOfControl |-> Null, mindset |-> Null,
     extraversion |-> Num(0), agreeableness |-> Num(0), currentFocus |-> <<>>]

\* config.initialData of /api/onboarding_questions
ServerInitialData ==
    [coachingStyle |-> "", conscientiousness |-> Null, regulatoryFocus |-> Null,
     locusOfControl |-> Null, mindset |-> Null,
     extraversion |-> Num(50), agreeableness |-> Num(50), currentFocus |-> <<>>]

\* The fields of the answer record that hold numbers and text; the others
\* hold a string or null.
NumberFields == {"extraversion", "agreeableness"}
TextFields == {"currentFocus"}

\* A JavaScript value of field f: its type, and the number or the string.
JSValue(f, type, num, str) == [type |-> type, num |-> num, str |-> str]
NoString(f) == IF f \in TextFields THEN <<>> ELSE ""
JSNull(f) == JSValue(f, "null", Num(0), NoString(f))
ValueOf(f, v) ==
    IF f \in NumberFields THEN JSValue(f, "number", v, NoString(f))
    ELSE IF f \in TextFields THEN JSValue(f, "string", Num(0), v)
    ELSE IF v = Null THEN JSNull(f)
    ELSE JSValue(f, "string", Num(0), v)

\* The answer record as JavaScript values, field by field.
ValuesOf(data) == [f \in DOMAIN data |-> ValueOf(f, data[f])]

\* JSON.stringify(onboardingData): one literal per field; a number that is
\* not finite is written as the literal null.
JSONStringify(data) ==
    [f \in DOMAIN data |->
        LET v == ValueOf(f, data[f])
        IN  IF v.type = "number" /\ v.num.nan THEN JSNull(f) ELSE v]

\* JSON.parse(text): every literal gives the value it denotes.
JSONParse(text) == [f \in DOMAIN text |-> text[f]]

\* ChatScreen: params.onboardingData ? JSON.parse(params.onboardingData) : null
ChatScreen_onboardingData(params) ==
    IF "onboardingData" \in DOMAIN params THEN JSONParse(params.onboardingData)
    ELSE Null

Users == {"once", "wanders"}

\* The values of coachingStyle the route may carry (Null: no parameter).
StyleParams == {Null, "planner"}

SequencerInit ==
    /\ sq_user \in Users
    /\ sq_impl \in Impls
    /\ sq_mounted = TRUE
    /\ sq_fetch = "pending"
    /\ sq_onboardingConfig = NoConfig
    /\ sq_loading = TRUE
    /\ sq_error = Null
    /\ sq_currentStepId = IF sq_impl = "linked" THEN "initialMessages" ELSE ""
    /\ sq_stepHistory = <<>>
    /\ sq_showContent = FALSE
    /\ sq_interactionState = "none"
    /\ \E style \in StyleParams : sq_onboardingData = InitialData(style)
    /\ sq_timers = <<>>
    /\ sq_routerBack = 0
    /\ sq_chat = <<>>
    /\ sq_pressed = FALSE
    /\ sq_answered = {}
    /\ sq_extra = 0
    /\ sq_fresh = FALSE

(* ------------------------------ rendering ------------------------------ *)

\* error is truthy: neither null nor the empty string
ErrorSet(error) == error # Null /\ error # ""

\* An OnboardingScreen without the return that renders the error screen.
View_withoutErrorScreen(impl, loading, error, config) ==
    IF loading THEN "loading" ELSE "main"

\* Which of the three returns of OnboardingScreen renders.
View(impl, loading, error, config) ==
    IF loading THEN "loading"
    ELSE IF impl = "linked"
         THEN (IF ErrorSet(error) THEN "error" ELSE "main")
         ELSE (IF ErrorSet(error) \/ config = NoConfig THEN "error" ELSE "main")

\* getCurrentStep(): the id of the step found, or NoStep
getCurrentStep(impl, config, stepId) ==
    IF config = NoConfig \/ stepId \notin StepIds(impl) THEN NoStep ELSE stepId

\* The step whose content renderStepContent() puts on screen, or NoStep.
ShownStep(impl, mounted, loading, error, config, showContent, stepId) ==
    IF mounted /\ View(impl, loading, error, config) = "main" /\ showContent
    THEN getCurrentStep(impl, config, stepId)
    ELSE NoStep

ShownNow ==
    ShownStep(sq_impl, sq_mounted, sq_loading, sq_error, sq_onboardingConfig,
              sq_showContent, sq_currentStepId)
\* (of a screen that stays mounted)
ShownNext ==
    ShownStep(sq_impl, sq_mounted, sq_loading', sq_error', sq_onboardingConfig',
              sq_showContent', sq_currentStepId')
TypeOf(impl, id) == IF id = NoStep THEN "none" ELSE FindStep(impl, id).type
ViewNow == View(sq_impl, sq_loading, sq_error, sq_onboardingConfig)

(* ------------------------------- timers -------------------------------- *)

\* A pending callback: what it is, the step its closure holds, the step it
\* moves to, who asked for the move, the answer record its closure holds.
Timer(kind, step, target, by, data, left) ==
    [kind |-> kind, step |-> step, target |-> target, by |-> by,
     data |-> data, left |-> left]

\* setTimeout(callback, t.left): callbacks run in the order they fall due,
\* and in the order they were set when they fall due together.
setTimeout(ts, t) ==
    LET k == Cardinality({i \in 1..Len(ts) : ts[i].left <= t.left})
    IN  SubSeq(ts, 1, k) \o <<t>> \o SubSeq(ts, k + 1, Len(ts))

Due(kind) ==
    /\ sq_timers # <<>>
    /\ sq_timers[1].left = 0
    /\ sq_timers[1].kind = kind

\* The AIMessage elements of a messages step pass onComplete to the last
\* message only, and only when the step has somewhere to go.
HasOnComplete(impl, id) ==
    IF impl = "linked" THEN FindStep(impl, id).nextStep # NoStep
    ELSE FindStep(impl, id).autoProgress

\* The effects React runs after a render of the screen.  The parent renders
\* when its state changed.  OnboardingTransitionMessage lists onComplete, a
\* new closure on every parent render, among its effect's dependencies, so
\* its effect runs again on every such render, and returns no cleanup.
\* AIMessage's effect has no dependencies: it runs when the element mounts.
AfterRender(ts) ==
    LET old == ShownNow
        new == ShownNext
        rendered == sqState' # sqState
        withTransition ==
            IF new # NoStep /\ TypeOf(sq_impl, new) \in TransitionTypes /\ rendered
            THEN setTimeout(ts, Timer("transitionDelay", new, NoStep, "auto", Null,
                                      FindStep(sq_impl, new).delay))
            ELSE ts
    IN  IF /\ new # NoStep
           /\ TypeOf(sq_impl, new) = "messages"
           /\ TypeOf(sq_impl, old) \notin MessageTypes
           /\ HasOnComplete(sq_impl, new)
        THEN setTimeout(withTransition,
                        Timer("messageDelay", new, NoStep, "auto", Null,
                              FindStep(sq_impl, new).delay))
        ELSE withTransition

\* The visit to a step ends when another step becomes current.
VisitBookkeeping ==
    /\ sq_pressed' = IF sq_currentStepId' # sq_currentStepId THEN FALSE ELSE sq_pressed
    /\ sq_fresh' = (sq_fresh \/ ShownNext # ShownNow)

(* ------------------------- loading the configuration ------------------- *)

\* How the request for the configuration can end.
FetchOutcomes == {"ok", "networkError", "notOk", "badJson"}

\* err.message of the error the catch block receives
ErrorMessage(outcome) ==
    CASE outcome = "networkError" -> "Network request failed"
      [] outcome = "notOk" -> "Failed to fetch onboarding configuration"
      [] outcome = "badJson" -> "JSON Parse error"

\* fetchOnboardingConfig() after its await: the try, catch and finally
\* blocks, and the effect that shows the content once a configuration is
\* there and loading is over.
fetchOnboardingConfig ==
    /\ sq_mounted
    /\ sq_fetch = "pending"
    /\ UNCHANGED <<sq_stepHistory, sq_showContent, sq_interactionState>>
    /\ \E outcome \in FetchOutcomes :
        /\ sq_fetch' = outcome
        /\ sq_loading' = FALSE
        /\ IF outcome = "ok"
           THEN /\ \E config \in Configs : sq_onboardingConfig' = Served(sq_impl, config)
                /\ sq_error' = sq_error
                /\ IF sq_impl = "history"
                   THEN /\ sq_currentStepId' =
                             sq_onboardingConfig'[1].id
                        /\ sq_onboardingData' =
                             [ServerInitialData EXCEPT
                                !.coachingStyle = sq_onboardingData.coachingStyle]
                   ELSE UNCHANGED <<sq_currentStepId, sq_onboardingData>>
                /\ sq_timers' = AfterRender(setTimeout(sq_timers,
                       Timer("showContent", NoStep, NoStep, "auto", Null, ShowContentDelay)))
           ELSE /\ sq_error' = ErrorMessage(outcome)
                /\ UNCHANGED <<sq_onboardingConfig, sq_currentStepId, sq_onboardingData>>
                /\ sq_timers' = AfterRender(sq_timers)
    /\ VisitBookkeeping
    /\ UNCHANGED <<wgVars, slVars, obVars, sq_user, sq_impl, sq_mounted, sq_routerBack, sq_chat, sq_answered, sq_extra>>

\* linked: the error screen's Try Again is window.location.reload(), which
\* starts the page, and with it the screen, from scratch.
L_tryAgain ==
    /\ sq_impl = "linked" /\ sq_mounted
    /\ ViewNow = "error"
    /\ sq_fetch' = "pending"
    /\ sq_onboardingConfig' = NoConfig
    /\ sq_loading' = TRUE
    /\ sq_error' = Null
    /\ sq_currentStepId' = "initialMessages"
    /\ sq_stepHistory' = <<>>
    /\ sq_showContent' = FALSE
    /\ sq_interactionState' = "none"
    /\ sq_onboardingData' = InitialData(sq_onboardingData.coachingStyle)
    /\ sq_timers' = <<>>
    /\ sq_pressed' = FALSE
    /\ sq_answered' = {}
    /\ sq_fresh' = FALSE
    /\ UNCHANGED <<wgVars, slVars, obVars, sq_user, sq_impl, sq_mounted, sq_routerBack, sq_chat, sq_extra>>

\* history: the error screen's Retry clears the error and sets loading; the
\* fetch effect has no dependencies and does not run again.
H_retry ==
    /\ sq_impl = "history" /\ sq_mounted
    /\ ViewNow = "error"
    /\ sq_error' = Null
    /\ sq_loading' = TRUE
    /\ UNCHANGED <<sq_onboardingConfig, sq_currentStepId, sq_stepHistory,
                   sq_showContent, sq_interactionState, sq_onboardingData>>
    /\ sq_timers' = AfterRender(sq_timers)
    /\ VisitBookkeeping
    /\ UNCHANGED <<wgVars, slVars, obVars, sq_user, sq_impl, sq_mounted, sq_fetch, sq_routerBack, sq_chat,
                   sq_answered, sq_extra>>

(* ---------------------------- timer callbacks -------------------------- *)

\* Time passes until the next callback falls due.  (The user acts at the
\* instants of the callbacks: between two of them nothing on the screen
\* changes.)
Tick ==
    /\ sq_timers # <<>>
    /\ sq_timers[1].left > 0
    /\ sq_timers' = [i \in 1..Len(sq_timers) |->
                        [sq_timers[i] EXCEPT !.left = @ - sq_timers[1].left]]
    /\ sq_fresh' = FALSE
    /\ UNCHANGED <<wgVars, slVars, obVars, sq_user, sq_impl, sq_mounted, sq_fetch, sq_onboardingConfig, sq_loading,
                   sq_error, sq_currentStepId, sq_stepHistory, sq_showContent,
                   sq_interactionState, sq_onboardingData, sq_routerBack, sq_chat,
                   sq_pressed, sq_answered, sq_extra>>

\* A callback that leaves the screen as it is.
Drop ==
    /\ sq_timers' = Tail(sq_timers)
    /\ UNCHANGED <<wgVars, slVars, obVars, sq_user, sq_impl, sq_mounted, sq_fetch, sq_onboardingConfig, sq_loading,
                   sq_error, sq_currentStepId, sq_stepHistory, sq_showContent,
                   sq_interactionState, sq_onboardingData, sq_routerBack, sq_chat,
                   sq_pressed, sq_answered, sq_extra, sq_fresh>>

\* A callback of a screen that router.back() has unmounted: its state
\* updates do nothing.
unmountedCallback ==
    /\ ~sq_mounted
    /\ sq_timers # <<>> /\ sq_timers[1].left = 0
    /\ sq_timers[1].kind # "submit"
    /\ Drop

\* setTimeout(() => { setShowContent(true); ... }, 500)
showContentCallback ==
    /\ sq_mounted /\ Due("showContent")
    /\ sq_showContent' = TRUE
    /\ UNCHANGED <<sq_onboardingConfig, sq_loading, sq_error, sq_currentStepId,
                   sq_stepHistory, sq_interactionState, sq_onboardingData>>
    /\ sq_timers' = AfterRender(Tail(sq_timers))
    /\ VisitBookkeeping
    /\ UNCHANGED <<wgVars, slVars, obVars, sq_user, sq_impl, sq_mounted, sq_fetch, sq_routerBack, sq_chat,
                   sq_answered, sq_extra>>

\* A callback that only sets another timer: it changes no state of the screen.
Chain(next) ==
    /\ sq_timers' = setTimeout(Tail(sq_timers), next)
    /\ UNCHANGED <<wgVars, slVars, obVars, sq_user, sq_impl, sq_mounted, sq_fetch, sq_onboardingConfig, sq_loading,
                   sq_error, sq_currentStepId, sq_stepHistory, sq_showContent,
                   sq_interactionState, sq_onboardingData, sq_routerBack, sq_chat,
                   sq_pressed, sq_answered, sq_extra, sq_fresh>>

\* AIMessage: setTimeout(() => { setShowTyping(true); setTimeout(..., 1200) }, delay)
AIMessage_delayCallback ==
    /\ sq_mounted /\ Due("messageDelay")
    /\ Chain(Timer("messageTyping", sq_timers[1].step, NoStep, "auto", Null,
                   MessageTypingDelay))

\* The wait the onComplete of a step sets before it moves on.
AutoWait(step) ==
    IF sq_impl = "linked" THEN AutoDelay ELSE FindStep(sq_impl, step).autoProgressDelay

\* AIMessage: the inner callback: setShowTyping(false); setShowMessage(true);
\* onComplete?.()
AIMessage_typingCallback ==
    /\ sq_mounted /\ Due("messageTyping")
    /\ Chain(Timer("autoWait", sq_timers[1].step,
                   FindStep(sq_impl, sq_timers[1].step).nextStep, "auto", Null,
                   AutoWait(sq_timers[1].step)))

\* OnboardingTransitionMessage: setTimeout(() => { setShowMessage(true); ...;
\* setTimeout(..., 1500) }, delay)
TransitionMessage_delayCallback ==
    /\ sq_mounted /\ Due("transitionDelay")
    /\ Chain(Timer("transitionTyping", sq_timers[1].step, NoStep, "auto", Null,
                   TransitionTypingDelay))

\* OnboardingTransitionMessage: setIsLoading(false); onComplete?.()
TransitionMessage_typingCallback ==
    /\ sq_mounted /\ Due("transitionTyping")
    /\ IF sq_impl = "linked" \/ FindStep(sq_impl, sq_timers[1].step).autoProgress
       THEN Chain(Timer("autoWait", sq_timers[1].step,
                        FindStep(sq_impl, sq_timers[1].step).nextStep, "auto", Null,
                        AutoWait(sq_timers[1].step)))
       ELSE Drop

\* animateToNextStep(target) / navigateToStep(target, addToHistory) up to
\* their setTimeout: the history implementation first appends the
\* currentStepId of the closure that calls it.
StartMove(ts, closureStep, target, by, addToHistory) ==
    /\ sq_interactionState' = "transitioning"
    /\ sq_stepHistory' =
         IF sq_impl = "history" /\ addToHistory
         THEN Append(sq_stepHistory, closureStep)
         ELSE sq_stepHistory
    /\ UNCHANGED <<sq_onboardingConfig, sq_loading, sq_error, sq_currentStepId,
                   sq_showContent, sq_onboardingData>>
    /\ sq_timers' = AfterRender(setTimeout(ts,
           Timer("swap", closureStep, target, by, Null, SwapDelay)))
    /\ UNCHANGED <<wgVars, slVars, obVars, sq_user, sq_impl, sq_mounted, sq_fetch, sq_routerBack, sq_chat>>

\* A callback is no press of the user.
NoPress == VisitBookkeeping /\ UNCHANGED <<sq_answered, sq_extra>>

\* The callback an onComplete set: animateToNextStep(nextStep) after the
\* linked implementation's test of nextStep, navigateToStep(nextStepId) in
\* handleAutoProgress.
autoWaitCallback ==
    /\ sq_mounted /\ Due("autoWait")
    /\ IF sq_impl = "linked" /\ sq_timers[1].target = NoStep
       THEN Drop
       ELSE StartMove(Tail(sq_timers), sq_timers[1].step, sq_timers[1].target,
                      "auto", TRUE) /\ NoPress

\* The callback handleCardChoice / handleChoiceSelection set (300 ms)
choiceCallback ==
    /\ sq_mounted /\ Due("choiceWait")
    /\ IF sq_timers[1].target = NoStep
       THEN Drop
       ELSE StartMove(Tail(sq_timers), sq_timers[1].step, sq_timers[1].target,
                      "press", TRUE) /\ NoPress

\* The callback handleSliderComplete set (500 ms)
sliderCallback ==
    /\ sq_mounted /\ Due("sliderWait")
    /\ IF sq_timers[1].target = NoStep
       THEN Drop
       ELSE StartMove(Tail(sq_timers), sq_timers[1].step, sq_timers[1].target,
                      "press", TRUE) /\ NoPress

\* The callback of animateToNextStep / navigateToStep (400 ms):
\* setCurrentStepId(target); setInteractionState('none')
swapCallback ==
    /\ sq_mounted /\ Due("swap")
    /\ sq_currentStepId' = sq_timers[1].target
    /\ sq_interactionState' = "none"
    /\ UNCHANGED <<sq_onboardingConfig, sq_loading, sq_error, sq_stepHistory,
                   sq_showContent, sq_onboardingData>>
    /\ sq_timers' = AfterRender(Tail(sq_timers))
    /\ VisitBookkeeping
    /\ UNCHANGED <<wgVars, slVars, obVars, sq_user, sq_impl, sq_mounted, sq_fetch, sq_routerBack, sq_chat,
                   sq_answered, sq_extra>>

\* The callback handleFinalSubmit set (300 ms): router.push to /chat with
\* the coachingStyle and the answer record of the render that was pressed.
submitCallback ==
    /\ Due("submit")
    /\ sq_chat' = Append(sq_chat,
          [coachingStyle |-> sq_timers[1].data.coachingStyle,
           onboardingData |-> JSONStringify(sq_timers[1].data),
           accepted |-> sq_timers[1].data])
    /\ sq_timers' = Tail(sq_timers)
    /\ UNCHANGED <<wgVars, slVars, obVars, sq_user, sq_impl, sq_mounted, sq_fetch, sq_onboardingConfig, sq_loading,
                   sq_error, sq_currentStepId, sq_stepHistory, sq_showContent,
                   sq_interactionState, sq_onboardingData, sq_routerBack,
                   sq_pressed, sq_answered, sq_extra, sq_fresh>>

(* ------------------------------ the user ------------------------------- *)

\* The screen is on top of the navigation stack and shows its main view.
MainOnTop == sq_mounted /\ sq_chat = <<>> /\ ViewNow = "main"

\* The step whose controls can be touched.
Touchable(types) == MainOnTop /\ TypeOf(sq_impl, ShownNow) \in types

\* The presses the user has beyond one answer to every step.
Extras == IF sq_user = "wanders" THEN MaxExtra ELSE 0

\* The pace of the user: they act as soon as a step is on screen, or when
\* every pending callback has run.
Paced == sq_fresh \/ sq_timers = <<>>

\* A press of a choice, of Continue or of the submit button.  A press on a
\* step answered before is taken out of MaxExtra.
Press(step) ==
    /\ Paced
    /\ sq_extra' = IF step \in sq_answered THEN sq_extra + 1 ELSE sq_extra
    /\ sq_extra' <= Extras
    /\ sq_user = "wanders" => Cardinality(sq_answered \cup {step}) <= MaxWander
    /\ sq_pressed' = TRUE
    /\ sq_answered' = sq_answered \cup {step}
    /\ sq_fresh' = sq_fresh

\* handleCardChoice(choice, field) / handleChoiceSelection(choice, field)
handleCardChoice(choice) ==
    /\ Touchable(ChoiceTypes)
    /\ LET currentStep == FindStep(sq_impl, ShownNow)
       IN  /\ choice \in ChoiceValues(currentStep.field)
           /\ sq_onboardingData' =
                [sq_onboardingData EXCEPT ![currentStep.field] = choice]
           /\ sq_interactionState' = "selected"
           /\ UNCHANGED <<sq_onboardingConfig, sq_loading, sq_error,
                          sq_currentStepId, sq_stepHistory, sq_showContent>>
           /\ sq_timers' = AfterRender(setTimeout(sq_timers,
                  Timer("choiceWait", currentStep.id, currentStep.nextStep,
                        "press", Null, ChoiceDelay)))
           /\ Press(currentStep.id)
    /\ UNCHANGED <<wgVars, slVars, obVars, sq_user, sq_impl, sq_mounted, sq_fetch, sq_routerBack, sq_chat>>

\* The slider card's onValueChange: the value goes into the step's field.
sliderValueChange(value) ==
    /\ Touchable({"slider"})
    /\ Paced
    /\ sq_onboardingData' =
         [sq_onboardingData EXCEPT ![FindStep(sq_impl, ShownNow).field] = value]
    /\ UNCHANGED <<sq_onboardingConfig, sq_loading, sq_error, sq_currentStepId,
                   sq_stepHistory, sq_showContent, sq_interactionState>>
    /\ sq_timers' = AfterRender(sq_timers)
    /\ UNCHANGED <<wgVars, slVars, obVars, sq_user, sq_impl, sq_mounted, sq_fetch, sq_routerBack, sq_chat,
                   sq_pressed, sq_answered, sq_extra, sq_fresh>>

\* handleSliderComplete(): the Continue button of a slider step
handleSliderComplete ==
    /\ Touchable({"slider"})
    /\ LET currentStep == FindStep(sq_impl, ShownNow)
       IN  /\ sq_interactionState' = "selected"
           /\ UNCHANGED <<sq_onboardingConfig, sq_loading, sq_error, sq_currentStepId,
                          sq_stepHistory, sq_showContent, sq_onboardingData>>
           /\ sq_timers' = AfterRender(setTimeout(sq_timers,
                  Timer("sliderWait", currentStep.id, currentStep.nextStep,
                        "press", Null, SliderDelay)))
           /\ Press(currentStep.id)
    /\ UNCHANGED <<wgVars, slVars, obVars, sq_user, sq_impl, sq_mounted, sq_fetch, sq_routerBack, sq_chat>>

\* onChangeText of the final input: the text field reports a changed text
onChangeText(text) ==
    /\ Touchable(TextTypes)
    /\ Paced
    /\ sq_onboardingData' = [sq_onboardingData EXCEPT !.currentFocus = text]
    /\ sq_onboardingData' # sq_onboardingData
    /\ UNCHANGED <<sq_onboardingConfig, sq_loading, sq_error, sq_currentStepId,
                   sq_stepHistory, sq_showContent, sq_interactionState>>
    /\ sq_timers' = AfterRender(sq_timers)
    /\ UNCHANGED <<wgVars, slVars, obVars, sq_user, sq_impl, sq_mounted, sq_fetch, sq_routerBack, sq_chat,
                   sq_pressed, sq_answered, sq_extra, sq_fresh>>

\* handleFinalSubmit(): the submit button is disabled while the trimmed text
\* is empty, and the handler tests the same.
handleFinalSubmit ==
    /\ Touchable(TextTypes)
    /\ Truthy(Trim(sq_onboardingData.currentFocus))
    /\ sq_interactionState' = "selected"
    /\ UNCHANGED <<sq_onboardingConfig, sq_loading, sq_error, sq_currentStepId,
                   sq_stepHistory, sq_showContent, sq_onboardingData>>
    /\ sq_timers' = AfterRender(setTimeout(sq_timers,
           Timer("submit", ShownNow, NoStep, "press", sq_onboardingData, SubmitDelay)))
    /\ Press(ShownNow)
    /\ UNCHANGED <<wgVars, slVars, obVars, sq_user, sq_impl, sq_mounted, sq_fetch, sq_routerBack, sq_chat>>

\* router.back(): the host pops the onboarding screen.
routerBack ==
    /\ sq_routerBack' = sq_routerBack + 1
    /\ sq_mounted' = FALSE
    /\ UNCHANGED <<wgVars, slVars, obVars, sq_user, sq_impl, sq_fetch, sq_onboardingConfig, sq_loading, sq_error,
                   sq_currentStepId, sq_stepHistory, sq_showContent,
                   sq_interactionState, sq_onboardingData, sq_timers, sq_chat>>

\* A press of the header's back button is taken out of MaxExtra.
BackPress ==
    /\ Paced
    /\ sq_extra' = sq_extra + 1
    /\ sq_extra' <= Extras
    /\ sq_pressed' = TRUE
    /\ sq_answered' = sq_answered
    /\ sq_fresh' = sq_fresh

\* linked handleBackPress(): router.back() when there is no current step or
\* it has no previousStep, animateToNextStep(previousStep) otherwise.
L_handleBackPress ==
    /\ sq_impl = "linked" /\ MainOnTop
    /\ LET currentStep == getCurrentStep(sq_impl, sq_onboardingConfig, sq_currentStepId)
       IN  IF currentStep = NoStep \/ FindStep(sq_impl, currentStep).previousStep = NoStep
           THEN routerBack
           ELSE StartMove(sq_timers, currentStep,
                          FindStep(sq_impl, currentStep).previousStep, "back", FALSE)
    /\ BackPress

\* A handleBackPress() that goes to the oldest entry of stepHistory.
H_handleBackPress_toOldest ==
    /\ sq_impl = "history" /\ MainOnTop
    /\ IF Len(sq_stepHistory) > 0
       THEN /\ sq_stepHistory' = SubSeq(sq_stepHistory, 1, Len(sq_stepHistory) - 1)
            /\ sq_interactionState' = "transitioning"
            /\ UNCHANGED <<sq_onboardingConfig, sq_loading, sq_error,
                           sq_currentStepId, sq_showContent, sq_onboardingData>>
            /\ sq_timers' = AfterRender(setTimeout(sq_timers,
                   Timer("swap", sq_currentStepId, sq_stepHistory[1], "back", Null,
                         SwapDelay)))
            /\ UNCHANGED <<wgVars, slVars, obVars, sq_user, sq_impl, sq_mounted, sq_fetch,
                           sq_routerBack, sq_chat>>
       ELSE routerBack
    /\ BackPress

\* history handleBackPress(): pops the last entry of stepHistory and
\* navigates to it without adding to the history; router.back() when the
\* history is empty.
H_handleBackPress ==
    /\ sq_impl = "history" /\ MainOnTop
    /\ IF Len(sq_stepHistory) > 0
       THEN LET previousStepId == sq_stepHistory[Len(sq_stepHistory)]
            IN  /\ sq_stepHistory' = SubSeq(sq_stepHistory, 1, Len(sq_stepHistory) - 1)
                /\ sq_interactionState' = "transitioning"
                /\ UNCHANGED <<sq_onboardingConfig, sq_loading, sq_error,
                               sq_currentStepId, sq_showContent, sq_onboardingData>>
                /\ sq_timers' = AfterRender(setTimeout(sq_timers,
                       Timer("swap", sq_currentStepId, previousStepId, "back", Null,
                             SwapDelay)))
                /\ UNCHANGED <<wgVars, slVars, obVars, sq_user, sq_impl, sq_mounted, sq_fetch, sq_routerBack, sq_chat>>
       ELSE routerBack
    /\ BackPress

\* handleInteractionStart(): onPressIn of a control, onInteractionStart of
\* the slider card, onFocus of the text input
handleInteractionStart ==
    /\ Touchable(InteractiveTypes)
    /\ Paced
    /\ sq_interactionState # "touching"
    /\ sq_interactionState' = "touching"
    /\ UNCHANGED <<sq_onboardingConfig, sq_loading, sq_error, sq_currentStepId,
                   sq_stepHistory, sq_showContent, sq_onboardingData>>
    /\ sq_timers' = AfterRender(sq_timers)
    /\ UNCHANGED <<wgVars, slVars, obVars, sq_user, sq_impl, sq_mounted, sq_fetch, sq_routerBack, sq_chat,
                   sq_pressed, sq_answered, sq_extra, sq_fresh>>

\* handleInteractionEnd(): onPressOut, onInteractionEnd, onBlur; the finger
\* may lift after the step it went down on has gone.
handleInteractionEnd ==
    /\ MainOnTop
    /\ Paced
    /\ sq_interactionState # "none"
    /\ sq_interactionState' = "none"
    /\ UNCHANGED <<sq_onboardingConfig, sq_loading, sq_error, sq_currentStepId,
                   sq_stepHistory, sq_showContent, sq_onboardingData>>
    /\ sq_timers' = AfterRender(sq_timers)
    /\ UNCHANGED <<wgVars, slVars, obVars, sq_user, sq_impl, sq_mounted, sq_fetch, sq_routerBack, sq_chat,
                   sq_pressed, sq_answered, sq_extra, sq_fresh>>

\* The two implementations' handlers of a choice, of Continue and of submit.
L_handleCardChoice(choice) == sq_impl = "linked" /\ handleCardChoice(choice)
H_handleChoiceSelection(choice) == sq_impl = "history" /\ handleCardChoice(choice)
L_handleSliderComplete == sq_impl = "linked" /\ handleSliderComplete
H_handleSliderComplete == sq_impl = "history" /\ handleSliderComplete
L_handleFinalSubmit == sq_impl = "linked" /\ handleFinalSubmit
H_handleFinalSubmit == sq_impl = "history" /\ handleFinalSubmit

\* The cards the user picks: either card of the first question, one card of
\* each of the others.
UserChoices == {"planner", "adapter", "promotion", "internal", "growth"}

\* What the timers and the network do.
SequencerRuns ==
    \/ fetchOnboardingConfig
    \/ Tick
    \/ showContentCallback
    \/ AIMessage_delayCallback
    \/ AIMessage_typingCallback
    \/ TransitionMessage_delayCallback
    \/ TransitionMessage_typingCallback
    \/ autoWaitCallback
    \/ choiceCallback
    \/ sliderCallback
    \/ swapCallback
    \/ submitCallback

\* What a user does who answers.
UserAnswers ==
    \/ \E choice \in UserChoices : L_handleCardChoice(choice)
    \/ \E choice \in UserChoices : H_handleChoiceSelection(choice)
    \/ \E value \in SliderInputs : sliderValueChange(value)
    \/ L_handleSliderComplete
    \/ H_handleSliderComplete
    \/ \E text \in Texts : onChangeText(text)
    \/ L_handleFinalSubmit
    \/ H_handleFinalSubmit

\* What else a user can do.
UserWanders ==
    \/ L_tryAgain
    \/ H_retry
    \/ L_handleBackPress
    \/ H_handleBackPress
    \/ handleInteractionStart
    \/ handleInteractionEnd
    \/ unmountedCallback

SequencerNext == SequencerRuns \/ UserAnswers \/ UserWanders

(***************************************************************************)
(* ONBOARDING SCREENS                                                      *)
(*                                                                         *)
(* The flow of app/onboarding/: an index screen that resets the answer     *)
(* record, then one screen per question, pushed on the navigation stack.   *)
(* The answer record lives in the OnboardingProvider above the stack.  The *)
(* source of the mindset screen is not among the files: it is taken to be  *)
(* the choice screen its route name and its neighbours say it is.          *)
(***************************************************************************)

\* Longest text typed into the final screen's input.
MaxFocusLen == 2
\* Entries through the index screen.
MaxEntries == 2
\* Presses on a route that was answered before, for the user who opens one
\* screen of the flow on its own; the user of the whole flow has none.
MaxRepeats == 1
\* Presses of a header's back button.
MaxBacks == 6

\* The delays of the screens, in ticks of 100 ms.
InitialShowDelay == 5
InitialMessageDelay == 30
FinalMessageDelay == 24
AIMessageTypingDelay == 12
NavigateDelay == 10
PushDelay == 4
ReplaceDelay == 4

\* initialOnboardingData
initialOnboardingData ==
    [coachingStyle |-> Null, conscientiousness |-> Null, regulatoryFocus |-> Null,
     locusOfControl |-> Null, mindset |-> Null,
     extraversion |-> Num(50), agreeableness |-> Num(50), currentFocus |-> <<>>]

\* setOnboardingData(() => ({ ...initialOnboardingData, ...data })): an update
\* that does not spread the previous record.
updateOnboardingData_noSpread(prevData, data) ==
    [f \in DOMAIN prevData \cup DOMAIN data |->
        IF f \in DOMAIN data THEN data[f] ELSE initialOnboardingData[f]]

\* setOnboardingData((prevData) => ({ ...prevData, ...data }))
updateOnboardingData(prevData, data) ==
    [f \in DOMAIN prevData \cup DOMAIN data |->
        IF f \in DOMAIN data THEN data[f] ELSE prevData[f]]

\* A reset that keeps the record as it is.
resetOnboardingData_kept == ob_onboardingData

\* setOnboardingData(initialOnboardingData)
resetOnboardingData == initialOnboardingData

\* { [field]: value }
Partial(field, value) == [f \in {field} |-> value]
\* {}
NoFields == [f \in {} |-> Null]

\* A screen of the flow: its route, what it asks for, the field it writes,
\* the route it pushes, the delay before it reveals its question, the delay
\* between the answer and animateToNextStep.
Screen(route, kind, field, next, reveal, wait) ==
    [route |-> route, kind |-> kind, field |-> field, next |-> next,
     reveal |-> reveal, wait |-> wait]

Screens == <<
    Screen("initial", "messages", Null, "conscientiousness", 0, 0),
    Screen("conscientiousness", "choice", "conscientiousness", "regulatory-focus", 5, 3),
    Screen("regulatory-focus", "choice", "regulatoryFocus", "locus-of-control", 10, 3),
    Screen("locus-of-control", "choice", "locusOfControl", "mindset", 8, 3),
    Screen("mindset", "choice", "mindset", "extraversion", 8, 3),
    Screen("extraversion", "slider", "extraversion", "agreeableness", 12, 5),
    Screen("agreeableness", "slider", "agreeableness", "final", 8, 5),
    Screen("final", "final", "currentFocus", NoStep, 0, 0),
    Screen("chat", "chat", Null, NoStep, 0, 0) >>

ScreenOf(route) == Screens[CHOOSE i \in 1..Len(Screens) : Screens[i].route = route]
KindOf(s) == ScreenOf(s.route).kind

\* Texts of the final screen's input.
FocusTexts == UNION {[1..n -> {" ", "a"}] : n \in 0..MaxFocusLen}

\* The screen as it mounts: its useState initial values.
Mount(route, id) ==
    [id |-> id, route |-> route,
     interactionState |-> IF route = "final" THEN "transitioningMessages" ELSE "none",
     showContent |-> FALSE,
     showTransition |-> ScreenOf(route).kind \in {"choice", "slider"},
     input |-> IF route = "final" THEN ob_onboardingData.currentFocus ELSE <<>>,
     focused |-> FALSE,
     pressed |-> FALSE]   \* the user pressed a choice, Continue or submit here

ObTimer(kind, s, data, left) ==
    [kind |-> kind, id |-> s.id, route |-> s.route, data |-> data, left |-> left]

\* clearTimeout of the callbacks of one kind that screen id has pending
ClearTimeout(ts, kinds, id) ==
    SelectSeq(ts, LAMBDA t : ~(t.kind \in kinds /\ t.id = id))

Top == ob_stack[Len(ob_stack)]
Mounted(id) == \E i \in 1..Len(ob_stack) : ob_stack[i].id = id
Ids(stack) == {stack[i].id : i \in 1..Len(stack)}

\* The effects React runs after a render of screen s.  The last AIMessage
\* of the initial and of the final screen, and the transition message of a
\* question screen, list onComplete among their effect's dependencies and
\* get a new closure on every render of the screen: their effect runs again
\* on every render.  AIMessage's cleanup clears the timer of its delay; the
\* transition message has no cleanup.
Effects(ts, s) ==
    IF KindOf(s) = "final" \/ (KindOf(s) = "messages" /\ s.showContent)
    THEN setTimeout(ClearTimeout(ts, {"delay"}, s.id),
                    ObTimer("delay", s, Null,
                            IF KindOf(s) = "final" THEN FinalMessageDelay
                            ELSE InitialMessageDelay))
    ELSE IF KindOf(s) \in {"choice", "slider"} /\ s.showTransition
    THEN setTimeout(ts, ObTimer("delay", s, Null, 0))
    ELSE ts

\* The effects after a render of the screens of stack whose id is in ids.
RECURSIVE EffectsOf(_, _, _)
EffectsOf(ts, stack, ids) ==
    IF stack = <<>> THEN ts
    ELSE EffectsOf(IF Head(stack).id \in ids THEN Effects(ts, Head(stack)) ELSE ts,
                   Tail(stack), ids)

\* The screens that render: every mounted screen reads the answer record,
\* so all of them when it changed, and the screens whose own state changed.
Rendered(stack) ==
    IF ob_onboardingData' # ob_onboardingData THEN Ids(stack)
    ELSE {stack[i].id : i \in {j \in 1..Len(stack) :
              j > Len(ob_stack) \/ stack[j] # ob_stack[j]}}

\* The cleanups of a screen that unmounts.
Cleanup(ts, s) ==
    IF KindOf(s) \in {"messages", "final"}
    THEN ClearTimeout(ts, {"delay", "showContent"}, s.id)
    ELSE ts

\* The stack with the state of screen id set by set(s).
SetState(id, set(_)) ==
    [i \in 1..Len(ob_stack) |->
        IF ob_stack[i].id = id THEN set(ob_stack[i]) ELSE ob_stack[i]]

\* What the user sees: the screen on top and whether it shows its question.
Shown(stack) ==
    IF stack = <<>> THEN <<"welcome", 0, FALSE>>
    ELSE <<stack[Len(stack)].route, stack[Len(stack)].id,
           stack[Len(stack)].showContent>>

ObDue(kind) ==
    /\ ob_timers # <<>>
    /\ ob_timers[1].left = 0
    /\ ob_timers[1].kind = kind

\* A step of the screens: the stack, the record and the timers that result.
\* The timers given are those before the renders' effects.
ObStep(stack, data, ts) ==
    /\ ob_stack' = stack
    /\ ob_onboardingData' = data
    /\ ob_timers' = EffectsOf(ts, stack, Rendered(stack))
    /\ ob_fresh' = (ob_fresh \/ Shown(stack) # Shown(ob_stack))

ScreensInit ==
    /\ ob_onboardingData = initialOnboardingData
    /\ ob_stack = <<>>
    /\ ob_style = Null
    /\ ob_entries = 0
    /\ ob_mounts = 0
    /\ ob_timers = <<>>
    /\ ob_chat = <<>>
    /\ ob_answered = {}
    /\ ob_extra = 0
    /\ ob_backs = 0
    /\ ob_fresh = TRUE

\* The routes a user opens on their own: a choice screen, a slider screen
\* and the final screen.
StartRoutes == {"conscientiousness", "agreeableness", "final"}

\* One screen of the flow opened on its own (by its route), by a user who
\* may press again where they have pressed.
ScreenAloneInit ==
    /\ ob_onboardingData = initialOnboardingData
    /\ \E route \in StartRoutes :
          /\ ob_stack = <<Mount(route, 0)>>
          /\ ob_timers = Effects(<<>>, Mount(route, 0))
    /\ ob_style = Null
    /\ ob_entries = MaxEntries
    /\ ob_mounts = 1
    /\ ob_chat = <<>>
    /\ ob_answered = {}
    /\ ob_extra = MaxRepeats
    /\ ob_backs = 0
    /\ ob_fresh = TRUE

\* The user acts as soon as the screen on top changes, or when nothing is
\* pending.
ObPaced == ob_fresh \/ ob_timers = <<>>

\* A press of a choice, of Continue or of submit; a press on a route answered
\* before is taken out of the presses the user has left.
ObPress(route) ==
    /\ ob_answered' = ob_answered \cup {route}
    /\ ob_extra' = IF route \in ob_answered THEN ob_extra - 1 ELSE ob_extra
    /\ ob_extra' >= 0

ObNoPress == UNCHANGED <<ob_answered, ob_extra>>

\* OnboardingIndexScreen's effect: resetOnboardingData(), the style of the
\* route into the record when there is one, router.replace to the initial
\* screen, which mounts and sets the timer of its content.
OnboardingIndexScreen(coachingStyle) ==
    /\ ob_entries < MaxEntries
    /\ ob_stack # <<>> => KindOf(Top) # "chat"
    /\ ob_timers = <<>>
    /\ ob_answered' = {}
    /\ ob_entries' = ob_entries + 1
    /\ ob_style' = coachingStyle
    /\ ob_mounts' = ob_mounts + 1
    /\ LET reset == resetOnboardingData
           data == IF coachingStyle # Null
                   THEN updateOnboardingData(reset, Partial("coachingStyle", coachingStyle))
                   ELSE updateOnboardingData(reset, NoFields)
           initial == Mount("initial", ob_mounts)
       IN  ObStep(Append(ob_stack, initial), data,
                  setTimeout(ob_timers,
                             ObTimer("showContent", initial, Null, InitialShowDelay)))
    /\ UNCHANGED <<wgVars, slVars, sqVars, ob_chat, ob_extra, ob_backs>>

\* The screen on top shows its question and takes touches.
Asking(kinds) ==
    /\ ob_stack # <<>>
    /\ KindOf(Top) \in kinds
    /\ Top.showContent

Disabled == Top.interactionState \in {"selected", "transitioning"}

\* The screen on top is one whose question the user has answered on another
\* screen of the same route.
Duplicate ==
    /\ ob_stack # <<>>
    /\ Top.route \in ob_answered
    /\ ~Top.pressed

\* The user is prompt: they answer a question as soon as they can, and
\* leave a screen they have answered before as soon as it comes up.
UserDue ==
    \/ /\ Asking({"choice", "slider"})
       /\ Top.route \notin ob_answered /\ ~Disabled
    \/ /\ Asking({"final"})
       /\ Top.route \notin ob_answered
       /\ Truthy(Trim(Top.input)) /\ Top.interactionState # "submitting"
    \/ Duplicate /\ ob_backs < MaxBacks

\* Time passes until the next callback is due.
ObTick ==
    /\ ob_timers # <<>>
    /\ ob_timers[1].left > 0
    /\ ~UserDue
    /\ ob_timers' = [i \in 1..Len(ob_timers) |->
                        [ob_timers[i] EXCEPT !.left = @ - ob_timers[1].left]]
    /\ ob_fresh' = FALSE
    /\ UNCHANGED <<wgVars, slVars, sqVars, ob_onboardingData, ob_stack, ob_style, ob_entries,
                   ob_mounts, ob_chat, ob_answered, ob_extra, ob_backs>>

\* A callback that sets the state of its screen, or does nothing when the
\* screen has unmounted, and then sets the timers given.
ObCallback(set(_), more) ==
    /\ ObStep(SetState(ob_timers[1].id, set), ob_onboardingData,
              IF more = <<>> THEN Tail(ob_timers)
              ELSE setTimeout(Tail(ob_timers), more[1]))
    /\ UNCHANGED <<wgVars, slVars, sqVars, ob_style, ob_entries, ob_mounts, ob_chat,
                   ob_answered, ob_extra, ob_backs>>

Same(s) == s

\* InitialScreen: setTimeout(() => { setShowContent(true); ... }, 500)
InitialScreen_showContent ==
    /\ ObDue("showContent")
    /\ ObCallback(LAMBDA s : [s EXCEPT !.showContent = TRUE], <<>>)

\* AIMessage / OnboardingTransitionMessage: the callback of the delay shows
\* the typing indicator and sets the timer of the message.
Message_delayCallback ==
    /\ ObDue("delay")
    /\ ObCallback(Same,
          <<[ob_timers[1] EXCEPT
                !.kind = "typing",
                !.left = IF ScreenOf(ob_timers[1].route).kind \in {"messages", "final"}
                         THEN AIMessageTypingDelay ELSE TransitionTypingDelay]>>)

\* InitialScreen: onComplete={() => setTimeout(navigateToNext, 1000)}
InitialScreen_onComplete ==
    /\ ObDue("typing")
    /\ ScreenOf(ob_timers[1].route).kind = "messages"
    /\ ObCallback(Same,
          <<[ob_timers[1] EXCEPT !.kind = "navigate", !.left = NavigateDelay]>>)

\* question screens: onComplete={() => setTimeout(animateToShowContent, ...)}
Question_onComplete ==
    /\ ObDue("typing")
    /\ ScreenOf(ob_timers[1].route).kind \in {"choice", "slider"}
    /\ ObCallback(Same,
          <<[ob_timers[1] EXCEPT !.kind = "reveal",
                                 !.left = ScreenOf(ob_timers[1].route).reveal]>>)

\* FinalScreen.handleMessagesComplete
handleMessagesComplete ==
    /\ ObDue("typing")
    /\ ScreenOf(ob_timers[1].route).kind = "final"
    /\ ObCallback(LAMBDA s : [s EXCEPT !.interactionState = "none",
                                       !.showContent = TRUE], <<>>)

\* animateToShowContent of a question screen
animateToShowContent ==
    /\ ObDue("reveal")
    /\ ObCallback(LAMBDA s : [s EXCEPT !.showTransition = FALSE,
                                       !.showContent = TRUE], <<>>)

\* InitialScreen.navigateToNext: the push follows 400 ms later
navigateToNext ==
    /\ ObDue("navigate")
    /\ ObCallback(Same, <<[ob_timers[1] EXCEPT !.kind = "push", !.left = PushDelay]>>)

\* animateToNextStep of a question screen: 'transitioning', and the push
\* follows 400 ms later
Screen_animateToNextStep ==
    /\ ObDue("answered")
    /\ ObCallback(LAMBDA s : [s EXCEPT !.interactionState = "transitioning"],
                  <<[ob_timers[1] EXCEPT !.kind = "push", !.left = PushDelay]>>)

\* router.push of the next route: the next screen mounts on top.
routerPush ==
    /\ ObDue("push")
    /\ ob_mounts' = ob_mounts + 1
    /\ ObStep(Append(ob_stack, Mount(ScreenOf(ob_timers[1].route).next, ob_mounts)),
              ob_onboardingData, Tail(ob_timers))
    /\ UNCHANGED <<wgVars, slVars, sqVars, ob_style, ob_entries, ob_chat, ob_answered,
                   ob_extra, ob_backs>>

\* The stack without its top, and the timers after the top's cleanups.
Popped == IF ob_stack = <<>> THEN <<>> ELSE SubSeq(ob_stack, 1, Len(ob_stack) - 1)
AfterPop(ts) == IF ob_stack = <<>> THEN ts ELSE Cleanup(ts, Top)

\* FinalScreen.handleFinalSubmit's callback: router.replace to /chat with the
\* serialized record; the chat screen takes the place of the screen on top.
routerReplace ==
    /\ ObDue("replace")
    /\ ob_mounts' = ob_mounts + 1
    /\ ob_chat' = Append(ob_chat,
          [onboardingData |-> JSONStringify(ob_timers[1].data)])
    /\ ObStep(Append(Popped, Mount("chat", ob_mounts)), ob_onboardingData,
              AfterPop(Tail(ob_timers)))
    /\ UNCHANGED <<wgVars, slVars, sqVars, ob_style, ob_entries, ob_answered, ob_extra,
                   ob_backs>>

\* A handler of the screen on top: the state it sets, the fields it writes
\* and the timer it sets.  The handlers that set a timer are those of a
\* choice, of Continue and of submit.
ObHandler(set(_), data, more) ==
    /\ ObPaced
    /\ IF more = <<>> THEN ObNoPress ELSE ObPress(Top.route)
    /\ ObStep(SetState(Top.id, set), updateOnboardingData(ob_onboardingData, data),
              IF more = <<>> THEN ob_timers ELSE setTimeout(ob_timers, more[1]))
    /\ UNCHANGED <<wgVars, slVars, sqVars, ob_style, ob_entries, ob_mounts, ob_chat, ob_backs>>

\* handleCardChoice(choice) of a choice screen
Screen_handleCardChoice(choice) ==
    /\ Asking({"choice"})
    /\ ~Disabled
    /\ choice \in ChoiceValues(ScreenOf(Top.route).field)
    /\ ObHandler(LAMBDA s : [s EXCEPT !.interactionState = "selected",
                                     !.pressed = TRUE],
                 Partial(ScreenOf(Top.route).field, choice),
                 <<ObTimer("answered", Top, Null, ScreenOf(Top.route).wait)>>)

\* onValueChange of a slider screen
Screen_onValueChange(value) ==
    /\ Asking({"slider"})
    /\ value # ob_onboardingData[ScreenOf(Top.route).field]
    /\ ObHandler(Same, Partial(ScreenOf(Top.route).field, value), <<>>)

\* handleSliderComplete of a slider screen
Screen_handleSliderComplete ==
    /\ Asking({"slider"})
    /\ ~Disabled
    /\ ObHandler(LAMBDA s : [s EXCEPT !.interactionState = "selected",
                                     !.pressed = TRUE], NoFields,
                 <<ObTimer("answered", Top, Null, ScreenOf(Top.route).wait)>>)

\* handleInteractionStart of a question screen
Screen_handleInteractionStart ==
    /\ Asking({"choice", "slider"})
    /\ KindOf(Top) = "choice" => ~Disabled
    /\ Top.interactionState # "touching"
    /\ ObHandler(LAMBDA s : [s EXCEPT !.interactionState = "touching"], NoFields, <<>>)

\* handleInteractionEnd: a slider screen keeps 'selected' and
\* 'transitioning', a choice screen does not.
Screen_handleInteractionEnd ==
    /\ Asking({"choice", "slider"})
    /\ KindOf(Top) = "slider" => ~Disabled
    /\ Top.interactionState # "none"
    /\ ObHandler(LAMBDA s : [s EXCEPT !.interactionState = "none"], NoFields, <<>>)

\* onChangeText={setCurrentFocusInput}
setCurrentFocusInput(text) ==
    /\ Asking({"final"})
    /\ Top.focused
    /\ text # Top.input
    /\ ObHandler(LAMBDA s : [s EXCEPT !.input = text], NoFields, <<>>)

\* FinalScreen.handleInputFocus
handleInputFocus ==
    /\ Asking({"final"})
    /\ ~Top.focused
    /\ ObHandler(LAMBDA s : [s EXCEPT !.interactionState = "touchingInput",
                                      !.focused = TRUE],
                 NoFields, <<>>)

\* FinalScreen.handleInputBlur
handleInputBlur ==
    /\ Asking({"final"})
    /\ Top.focused
    /\ ObHandler(LAMBDA s : [s EXCEPT
                     !.interactionState =
                         IF @ = "touchingInput" THEN "none" ELSE @,
                     !.focused = FALSE],
                 Partial("currentFocus", Top.input), <<>>)

\* FinalScreen.handleFinalSubmit: the button is disabled while the trimmed
\* input is empty and while 'submitting'; the handler tests the input again.
FinalScreen_handleFinalSubmit ==
    /\ Asking({"final"})
    /\ Truthy(Trim(Top.input)) /\ Top.interactionState # "submitting"
    /\ Truthy(Trim(Top.input))
    /\ ObHandler(LAMBDA s : [s EXCEPT !.interactionState = "submitting",
                                     !.pressed = TRUE],
                 Partial("currentFocus", Trim(Top.input)),
                 <<ObTimer("replace", Top,
                           updateOnboardingData(ob_onboardingData,
                               Partial("currentFocus", Trim(Top.input))),
                           ReplaceDelay)>>)

\* onBackPress of a screen's header: router.back() pops the screen on top.
\* The user leaves a screen whose question they have answered before.
Screen_onBackPress ==
    /\ Duplicate
    /\ KindOf(Top) # "chat"
    /\ ObPaced
    /\ ob_backs < MaxBacks
    /\ ob_backs' = ob_backs + 1
    /\ ObStep(Popped, ob_onboardingData, AfterPop(ob_timers))
    /\ UNCHANGED <<wgVars, slVars, sqVars, ob_style, ob_entries, ob_mounts, ob_chat,
                   ob_answered, ob_extra>>

\* The styles the index route may carry: none, or the card of the welcome
\* screen.
IndexStyles == {Null, "dynamic"}

ScreensNext ==
    \/ \E coachingStyle \in IndexStyles : OnboardingIndexScreen(coachingStyle)
    \/ ObTick
    \/ InitialScreen_showContent
    \/ Message_delayCallback
    \/ InitialScreen_onComplete
    \/ Question_onComplete
    \/ handleMessagesComplete
    \/ animateToShowContent
    \/ navigateToNext
    \/ Screen_animateToNextStep
    \/ routerPush
    \/ routerReplace
    \/ \E choice \in UserChoices : Screen_handleCardChoice(choice)
    \/ \E value \in SliderInputs : Screen_onValueChange(value)
    \/ Screen_handleSliderComplete
    \/ Screen_handleInteractionStart
    \/ Screen_handleInteractionEnd
    \/ \E text \in FocusTexts : setCurrentFocusInput(text)
    \/ handleInputFocus
    \/ handleInputBlur
    \/ FinalScreen_handleFinalSubmit
    \/ Screen_onBackPress

(***************************************************************************)
(* OnboardingChoiceButtons (src/components/OnboardingChoiceButtons.tsx)    *)
(***************************************************************************)

Buttons == {"promotion", "prevention"}

\* Calls of the parent's callbacks a touch may add before a choice is taken.
MaxCalls == 4

\* setTimeout(() => { onChoice(...); onInteractionEnd?.() }, 200)
ChoiceFeedbackDelay == 2

Call(fn, arg) == [fn |-> fn, arg |-> arg]

ChoiceButtonsInit ==
    /\ cb_mounted = TRUE
    /\ cb_selectedChoice = Null
    /\ cb_touch = [b \in Buttons |-> "up"]
    /\ cb_timers = <<>>
    /\ cb_calls = <<>>
    /\ cb_first = Null

ChoiceButtonsIdle == ChoiceButtonsInit

\* handleTouchStart(buttonType), the onPressIn of a button.  A button whose
\* disabled prop is set (selectedChoice !== null) takes no new touch.
handleTouchStart(buttonType) ==
    /\ cb_mounted
    /\ cb_selectedChoice = Null
    /\ cb_touch[buttonType] = "up"
    /\ Len(cb_calls) < MaxCalls
    /\ cb_touch' = [cb_touch EXCEPT ![buttonType] = "in"]
    /\ cb_calls' = IF cb_selectedChoice # Null THEN cb_calls
                   ELSE Append(cb_calls, Call("onInteractionStart", Null))
    /\ UNCHANGED <<cb_mounted, cb_selectedChoice, cb_timers, cb_first>>
    /\ UNCHANGED <<slVars, sqVars, obVars, aaVars, chVars>>

\* a press handler that takes every press
handleChoicePress_always(choice) ==
    /\ cb_mounted
    /\ cb_touch[choice] \in {"in", "out"}
    /\ cb_touch' = [cb_touch EXCEPT ![choice] = IF @ = "in" THEN "pressed" ELSE "up"]
    /\ cb_selectedChoice' = choice
    /\ cb_calls' = Append(cb_calls, Call("onInteractionStart", Null))
    /\ cb_timers' = setTimeout(cb_timers,
           [kind |-> "onChoice", choice |-> choice, left |-> ChoiceFeedbackDelay])
    /\ cb_first' = IF cb_first = Null THEN choice ELSE cb_first
    /\ UNCHANGED cb_mounted
    /\ UNCHANGED <<slVars, sqVars, obVars, aaVars, chVars>>
\* handlePromotionPress / handlePreventionPress, the onPress of a button whose
\* touch is in progress: if (selectedChoice !== null) return; otherwise
\* setSelectedChoice, onInteractionStart and the 200 ms timer.
handleChoicePress(choice) ==
    /\ cb_mounted
    /\ cb_touch[choice] \in {"in", "out"}
    /\ cb_touch' = [cb_touch EXCEPT ![choice] = IF @ = "in" THEN "pressed" ELSE "up"]
    /\ IF cb_selectedChoice # Null
       THEN UNCHANGED <<cb_selectedChoice, cb_calls, cb_timers, cb_first>>
       ELSE /\ cb_selectedChoice' = choice
            /\ cb_calls' = Append(cb_calls, Call("onInteractionStart", Null))
            /\ cb_timers' = setTimeout(cb_timers,
                   [kind |-> "onChoice", choice |-> choice, left |-> ChoiceFeedbackDelay])
            /\ cb_first' = IF cb_first = Null THEN choice ELSE cb_first
    /\ UNCHANGED cb_mounted
    /\ UNCHANGED <<slVars, sqVars, obVars, aaVars, chVars>>

handlePromotionPress == handleChoicePress("promotion")
handlePreventionPress == handleChoicePress("prevention")

\* handleTouchEnd, the onPressOut of a button: it comes before the onPress
\* of a long touch and after the onPress of a short one.
handleTouchEnd(buttonType) ==
    /\ cb_mounted
    /\ cb_touch[buttonType] \in {"in", "pressed"}
    /\ cb_touch' = [cb_touch EXCEPT ![buttonType] = IF @ = "in" THEN "out" ELSE "up"]
    /\ cb_calls' = IF cb_selectedChoice # Null THEN cb_calls
                   ELSE Append(cb_calls, Call("onInteractionEnd", Null))
    /\ UNCHANGED <<cb_mounted, cb_selectedChoice, cb_timers, cb_first>>
    /\ UNCHANGED <<slVars, sqVars, obVars, aaVars, chVars>>

\* The finger left the button before it lifted: no onPress follows.
touchLeaves(buttonType) ==
    /\ cb_mounted
    /\ cb_touch[buttonType] = "out"
    /\ cb_touch' = [cb_touch EXCEPT ![buttonType] = "up"]
    /\ UNCHANGED <<cb_mounted, cb_selectedChoice, cb_timers, cb_calls, cb_first>>
    /\ UNCHANGED <<slVars, sqVars, obVars, aaVars, chVars>>

\* The callback of the 200 ms timer: onChoice(choice); onInteractionEnd?.().
\* No cleanup clears it: it runs whether or not the component is mounted.
onChoiceCallback ==
    /\ cb_timers # <<>>
    /\ cb_timers[1].left = 0
    /\ cb_calls' = cb_calls \o <<Call("onChoice", cb_timers[1].choice),
                                 Call("onInteractionEnd", Null)>>
    /\ cb_timers' = Tail(cb_timers)
    /\ UNCHANGED <<cb_mounted, cb_selectedChoice, cb_touch, cb_first>>
    /\ UNCHANGED <<slVars, sqVars, obVars, aaVars, chVars>>

\* Time passes until the next callback is due.
ChoiceButtonsTick ==
    /\ cb_timers # <<>>
    /\ cb_timers[1].left > 0
    /\ cb_timers' = [i \in 1..Len(cb_timers) |->
                        [cb_timers[i] EXCEPT !.left = @ - cb_timers[1].left]]
    /\ UNCHANGED <<cb_mounted, cb_selectedChoice, cb_touch, cb_calls, cb_first>>
    /\ UNCHANGED <<slVars, sqVars, obVars, aaVars, chVars>>

\* The parent unmounts the component: the touches in progress end.
ChoiceButtonsUnmount ==
    /\ cb_mounted
    /\ cb_mounted' = FALSE
    /\ cb_touch' = [b \in Buttons |-> "up"]
    /\ UNCHANGED <<cb_selectedChoice, cb_timers, cb_calls, cb_first>>
    /\ UNCHANGED <<slVars, sqVars, obVars, aaVars, chVars>>

ChoiceButtonsNext ==
    \/ \E buttonType \in Buttons : handleTouchStart(buttonType)
    \/ handlePromotionPress
    \/ handlePreventionPress
    \/ \E buttonType \in Buttons : handleTouchEnd(buttonType)
    \/ \E buttonType \in Buttons : touchLeaves(buttonType)
    \/ onChoiceCallback
    \/ ChoiceButtonsTick
    \/ ChoiceButtonsUnmount

(***************************************************************************)
(* The auto-advance of OnboardingSliderCard (unnamed/part_006)             *)
(***************************************************************************)

\* Gestures the user makes on one card.
MaxReleases == 3

\* setTimeout(..., 1000) of triggerAutoAdvance
AutoAdvanceDelay == 10

NoTimer == 0

AutoAdvanceInit ==
    /\ aa_mounted = TRUE
    /\ aa_disabled \in BOOLEAN
    /\ aa_hasInteracted = FALSE
    /\ aa_touching = FALSE
    /\ aa_autoAdvanceTimer = NoTimer
    /\ aa_timers = <<>>
    /\ aa_releases = 0
    /\ aa_advances = 0
    /\ aa_sinceRelease = 0
    /\ aa_afterUnmount = FALSE

AutoAdvanceIdle == AutoAdvanceInit /\ aa_disabled = FALSE

\* clearTimeout(id)
clearTimeout(ts, id) == SelectSeq(ts, LAMBDA t : t.id # id)

\* a triggerAutoAdvance that leaves the timer set before pending
triggerAutoAdvance_keeps ==
    /\ aa_timers' = setTimeout(aa_timers,
           [id |-> aa_releases + 1, hasInteracted |-> aa_hasInteracted,
            left |-> AutoAdvanceDelay])
    /\ aa_autoAdvanceTimer' = aa_releases + 1
\* triggerAutoAdvance(): clears the timer autoAdvanceTimer.current names and
\* sets a new one, whose callback reads the hasInteracted of the render the
\* release handler belongs to.
triggerAutoAdvance ==
    /\ aa_timers' = setTimeout(
           IF aa_autoAdvanceTimer # NoTimer
           THEN clearTimeout(aa_timers, aa_autoAdvanceTimer) ELSE aa_timers,
           [id |-> aa_releases + 1, hasInteracted |-> aa_hasInteracted,
            left |-> AutoAdvanceDelay])
    /\ aa_autoAdvanceTimer' = aa_releases + 1

\* onStartShouldSetPanResponder: () => !disabled, and onPanResponderGrant:
\* setHasInteracted(true)
onPanResponderGrant ==
    /\ aa_mounted /\ ~aa_disabled
    /\ ~aa_touching
    /\ aa_releases < MaxReleases
    /\ aa_touching' = TRUE
    /\ aa_hasInteracted' = TRUE
    /\ UNCHANGED <<aa_mounted, aa_disabled, aa_autoAdvanceTimer, aa_timers,
                   aa_releases, aa_advances, aa_sinceRelease, aa_afterUnmount>>
    /\ UNCHANGED <<slVars, sqVars, obVars, cbVars, chVars>>

\* onPanResponderRelease: onInteractionEnd?.(); triggerAutoAdvance()
onPanResponderRelease ==
    /\ aa_mounted /\ ~aa_disabled
    /\ aa_touching
    /\ aa_touching' = FALSE
    /\ triggerAutoAdvance
    /\ aa_releases' = aa_releases + 1
    /\ aa_sinceRelease' = 0
    /\ UNCHANGED <<aa_mounted, aa_disabled, aa_hasInteracted, aa_advances,
                   aa_afterUnmount>>
    /\ UNCHANGED <<slVars, sqVars, obVars, cbVars, chVars>>

\* The callback of the timer: if (hasInteracted && onAutoAdvance) onAutoAdvance()
autoAdvanceCallback ==
    /\ aa_timers # <<>>
    /\ aa_timers[1].left = 0
    /\ aa_timers' = Tail(aa_timers)
    /\ IF aa_timers[1].hasInteracted
       THEN /\ aa_advances' = aa_advances + 1
            /\ aa_sinceRelease' = aa_sinceRelease + 1
            /\ aa_afterUnmount' = (aa_afterUnmount \/ ~aa_mounted)
       ELSE UNCHANGED <<aa_advances, aa_sinceRelease, aa_afterUnmount>>
    /\ UNCHANGED <<aa_mounted, aa_disabled, aa_hasInteracted, aa_touching,
                   aa_autoAdvanceTimer, aa_releases>>
    /\ UNCHANGED <<slVars, sqVars, obVars, cbVars, chVars>>

\* 100 ms pass.
AutoAdvanceTick ==
    /\ aa_timers # <<>>
    /\ aa_timers[1].left > 0
    /\ aa_timers' = [i \in 1..Len(aa_timers) |->
                        [aa_timers[i] EXCEPT !.left = @ - 1]]
    /\ UNCHANGED <<aa_mounted, aa_disabled, aa_hasInteracted, aa_touching,
                   aa_autoAdvanceTimer, aa_releases, aa_advances,
                   aa_sinceRelease, aa_afterUnmount>>
    /\ UNCHANGED <<slVars, sqVars, obVars, cbVars, chVars>>

\* The effect's cleanup at unmount: clearTimeout(autoAdvanceTimer.current)
AutoAdvanceUnmount ==
    /\ aa_mounted
    /\ aa_mounted' = FALSE
    /\ aa_touching' = FALSE
    /\ aa_timers' = IF aa_autoAdvanceTimer # NoTimer
                    THEN clearTimeout(aa_timers, aa_autoAdvanceTimer) ELSE aa_timers
    /\ UNCHANGED <<aa_disabled, aa_hasInteracted, aa_autoAdvanceTimer,
                   aa_releases, aa_advances, aa_sinceRelease, aa_afterUnmount>>
    /\ UNCHANGED <<slVars, sqVars, obVars, cbVars, chVars>>

AutoAdvanceNext ==
    \/ onPanResponderGrant
    \/ onPanResponderRelease
    \/ autoAdvanceCallback
    \/ AutoAdvanceTick
    \/ AutoAdvanceUnmount

(***************************************************************************)
(* The chat screen (unnamed/part_000, app/chat.tsx)                        *)
(***************************************************************************)

\* Presses of the send button.
MaxSends == 2

\* The texts typed into the input: empty, blank, and one that trim leaves
\* alone and one that it shortens.
ChatTexts == {<<>>, <<" ">>, <<"a">>, <<" ", "a">>}

\* The delays of the welcome sequence and of a response, in 100 ms.
WelcomeTypingDelay == 12
FollowUpDelay == 10
FollowUpTypingDelay == 15
\* 1500 + Math.random() * 1000: the shortest and the longest
ResponseDelays == {15, 25}

\* The onboardingData param: absent, or a record whose currentFocus is empty
\* or not.  The other fields of the record are left out.
ChatParams ==
    {[some |-> FALSE, currentFocus |-> <<>>],
     [some |-> TRUE, currentFocus |-> <<>>],
     [some |-> TRUE, currentFocus |-> <<"a">>]}

\* Message ids: "welcome-msg", "followup-msg", Date.now().toString() and
\* Date.now().toString() + "-ai".  Sends are presses of a button on renders
\* of different texts, so that Date.now() differs from send to send.
MessageId(time, tag) == [time |-> time, tag |-> tag]
welcomeMessageId == MessageId(0, "welcome-msg")
followUpMessageId == MessageId(0, "followup-msg")

Undefined == <<"undefined">>

\* generatePersonalizedWelcome(data)
generatePersonalizedWelcome(data) ==
    IF ~data.some THEN <<"Welcome! I'm here to support you on your journey.">>
    ELSE <<"Excellent! I appreciate your flexible, adaptive approach. ">>

\* generatePersonalizedFollowUp(data)
generatePersonalizedFollowUp(data) ==
    <<"I hear that ">> \o data.currentFocus \o
    <<" is what feels most important to you right now. ">>

\* generateAIResponse(userMessage, data): one of the responses of the list,
\* picked with Math.random(); two of the list stand for it.
generateAIResponse(userMessage, data) ==
    IF ~data.some
    THEN {<<"I appreciate you sharing that. Tell me more about what's driving this for you?">>}
    ELSE {<<"I'm curious about what this means to you personally.">>,
          <<"What does your inner wisdom tell you about this?">>}

Placeholder(id, actualText) ==
    [id |-> id, text |-> <<>>, isUser |-> FALSE, isLoading |-> TRUE,
     actualText |-> actualText]

\* an addMessage that puts the message first
addMessage_first(msgs, newMessage) == <<newMessage>> \o msgs
\* addMessage: setMessages(prev => [...prev, newMessage])
addMessage(msgs, newMessage) == Append(msgs, newMessage)

\* an updateMessage that changes every message that is loading
updateMessage_loading(msgs, id, updates) ==
    [i \in 1..Len(msgs) |->
        IF msgs[i].isLoading
        THEN [msgs[i] EXCEPT !.text = updates.text,
                             !.isLoading = updates.isLoading,
                             !.actualText = updates.actualText]
        ELSE msgs[i]]
\* updateMessage: setMessages(prev => prev.map(msg => msg.id === id ?
\* { ...msg, ...updates } : msg))
updateMessage(msgs, id, updates) ==
    [i \in 1..Len(msgs) |->
        IF msgs[i].id = id
        THEN [msgs[i] EXCEPT !.text = updates.text,
                             !.isLoading = updates.isLoading,
                             !.actualText = updates.actualText]
        ELSE msgs[i]]

Revealed(text) == [text |-> text, isLoading |-> FALSE, actualText |-> Undefined]

\* an effect that starts the welcome sequence at every run
welcomeEffect_everyRun(initialized, msgs, ts) ==
    [messages |-> addMessage(msgs,
         Placeholder(welcomeMessageId, generatePersonalizedWelcome(ch_onboardingData))),
     timers |-> setTimeout(ts,
         [kind |-> "welcome", id |-> welcomeMessageId,
          text |-> generatePersonalizedWelcome(ch_onboardingData),
          left |-> WelcomeTypingDelay])]
\* The effect of ChatScreen, which runs after the mount and after every
\* render (onboardingData is parsed anew at every render):
\* if (initializedRef.current) return; otherwise the welcome placeholder and
\* its timer.
welcomeEffect(initialized, msgs, ts) ==
    IF initialized THEN [messages |-> msgs, timers |-> ts]
    ELSE [messages |-> addMessage(msgs,
              Placeholder(welcomeMessageId, generatePersonalizedWelcome(ch_onboardingData))),
          timers |-> setTimeout(ts,
              [kind |-> "welcome", id |-> welcomeMessageId,
               text |-> generatePersonalizedWelcome(ch_onboardingData),
               left |-> WelcomeTypingDelay])]

\* The screen after its mount and the first run of its effect.
ChatInit ==
    /\ ch_onboardingData \in ChatParams
    /\ ch_initializedRef = TRUE
    /\ ch_messages = welcomeEffect(FALSE, <<>>, <<>>).messages
    /\ ch_timers = welcomeEffect(FALSE, <<>>, <<>>).timers
    /\ ch_inputText = <<>>
    /\ ch_now = 1
    /\ ch_presses = 0
    /\ ch_computed = (welcomeMessageId :> generatePersonalizedWelcome(ch_onboardingData))

ChatIdle == ChatInit /\ ch_onboardingData = [some |-> FALSE, currentFocus |-> <<>>]

\* The state after a handler or a callback: when messages or inputText
\* changed the screen renders and its effect runs again.
ChatStep(msgs, input, ts) ==
    LET after == IF msgs = ch_messages /\ input = ch_inputText
                 THEN [messages |-> msgs, timers |-> ts]
                 ELSE welcomeEffect(ch_initializedRef, msgs, ts)
    IN  /\ ch_messages' = after.messages
        /\ ch_timers' = after.timers
        /\ ch_inputText' = input
        /\ ch_initializedRef' = TRUE
        /\ UNCHANGED ch_onboardingData
        /\ UNCHANGED <<slVars, sqVars, obVars, cbVars, aaVars>>

ChatDue(kind) ==
    /\ ch_timers # <<>>
    /\ ch_timers[1].left = 0
    /\ ch_timers[1].kind = kind

\* The callback of the welcome timer: updateMessage(welcomeMessageId, ...),
\* and when onboardingData?.currentFocus is truthy the timer of the
\* follow-up.
welcomeCallback ==
    /\ ChatDue("welcome")
    /\ ChatStep(updateMessage(ch_messages, ch_timers[1].id, Revealed(ch_timers[1].text)),
                ch_inputText,
                IF ch_onboardingData.some /\ Truthy(ch_onboardingData.currentFocus)
                THEN setTimeout(Tail(ch_timers),
                         [kind |-> "followUpDelay", id |-> followUpMessageId,
                          text |-> generatePersonalizedFollowUp(ch_onboardingData),
                          left |-> FollowUpDelay])
                ELSE Tail(ch_timers))
    /\ UNCHANGED <<ch_now, ch_presses, ch_computed>>

\* The callback 1000 ms later: the follow-up placeholder and its timer.
followUpDelayCallback ==
    /\ ChatDue("followUpDelay")
    /\ ChatStep(addMessage(ch_messages,
                    Placeholder(ch_timers[1].id, ch_timers[1].text)),
                ch_inputText,
                setTimeout(Tail(ch_timers),
                    [ch_timers[1] EXCEPT !.kind = "reveal", !.left = FollowUpTypingDelay]))
    /\ ch_computed' = (ch_timers[1].id :> ch_timers[1].text) @@ ch_computed
    /\ UNCHANGED <<ch_now, ch_presses>>

\* The callback that ends a placeholder: updateMessage(id, { text,
\* isLoading: false, actualText: undefined })
revealCallback ==
    /\ ChatDue("reveal")
    /\ ChatStep(updateMessage(ch_messages, ch_timers[1].id, Revealed(ch_timers[1].text)),
                ch_inputText, Tail(ch_timers))
    /\ UNCHANGED <<ch_now, ch_presses, ch_computed>>

\* onChangeText={setInputText}
setInputText(text) ==
    /\ text # ch_inputText
    /\ ChatStep(ch_messages, text, ch_timers)
    /\ UNCHANGED <<ch_now, ch_presses, ch_computed>>

\* handleSendMessage: if (inputText.trim()) { addMessage of the trimmed text,
\* setInputText(''), addMessage of the placeholder, and the timer of the
\* response }.  The send button is disabled while the trimmed text is empty;
\* the handler tests it again.
handleSendMessage ==
    /\ ch_presses < MaxSends
    /\ ch_presses' = ch_presses + 1
    /\ IF Truthy(Trim(ch_inputText))
       THEN \E responseText \in generateAIResponse(ch_inputText, ch_onboardingData) :
            \E delay \in ResponseDelays :
               /\ ChatStep(
                     addMessage(
                         addMessage(ch_messages,
                             [id |-> MessageId(ch_now, ""), text |-> Trim(ch_inputText),
                              isUser |-> TRUE, isLoading |-> FALSE,
                              actualText |-> Undefined]),
                         Placeholder(MessageId(ch_now, "-ai"), responseText)),
                     <<>>,
                     setTimeout(ch_timers,
                         [kind |-> "reveal", id |-> MessageId(ch_now, "-ai"),
                          text |-> responseText, left |-> delay]))
               /\ ch_computed' = (MessageId(ch_now, "-ai") :> responseText) @@ ch_computed
               /\ ch_now' = ch_now + 1
       ELSE /\ ChatStep(ch_messages, ch_inputText, ch_timers)
            /\ UNCHANGED <<ch_now, ch_computed>>

\* Time passes until the next callback is due.
ChatTick ==
    /\ ch_timers # <<>>
    /\ ch_timers[1].left > 0
    /\ ch_timers' = [i \in 1..Len(ch_timers) |->
                        [ch_timers[i] EXCEPT !.left = @ - ch_timers[1].left]]
    /\ UNCHANGED <<ch_onboardingData, ch_initializedRef, ch_messages, ch_inputText,
                   ch_now, ch_presses, ch_computed>>
    /\ UNCHANGED <<slVars, sqVars, obVars, cbVars, aaVars>>

ChatNext ==
    \/ welcomeCallback
    \/ followUpDelayCallback
    \/ revealCallback
    \/ \E text \in ChatTexts : setInputText(text)
    \/ handleSendMessage
    \/ ChatTick

vars == <<slVars, sqVars, obVars, wgVars>>

\* The slider card on its own: the sequencer stays as it was mounted.
SequencerIdle ==
    /\ SequencerInit
    /\ sq_user = "once"
    /\ sq_impl = "linked"
    /\ sq_onboardingData = InitialData(Null)

\* The sequencer on its own: the slider card stays as it was mounted.
SliderIdle ==
    /\ SliderInit
    /\ sl_variant = "inline"
    /\ sl_layoutWidth = MaxTrack

\* The flow of app/onboarding/ is not entered.
ScreensIdle ==
    /\ ob_onboardingData = initialOnboardingData
    /\ ob_stack = <<>>
    /\ ob_style = Null
    /\ ob_entries = MaxEntries
    /\ ob_mounts = 0
    /\ ob_timers = <<>>
    /\ ob_chat = <<>>
    /\ ob_answered = {}
    /\ ob_extra = 0
    /\ ob_backs = 0
    /\ ob_fresh = TRUE

\* The single-screen onboarding is not opened.
SequencerOff ==
    /\ sq_user = "once"
    /\ sq_impl = "linked"
    /\ sq_mounted = FALSE
    /\ sq_fetch = "none"
    /\ sq_onboardingConfig = NoConfig
    /\ sq_loading = TRUE
    /\ sq_error = Null
    /\ sq_currentStepId = "initialMessages"
    /\ sq_stepHistory = <<>>
    /\ sq_showContent = FALSE
    /\ sq_interactionState = "none"
    /\ sq_onboardingData = InitialData(Null)
    /\ sq_timers = <<>>
    /\ sq_routerBack = 0
    /\ sq_chat = <<>>
    /\ sq_pressed = FALSE
    /\ sq_answered = {}
    /\ sq_extra = 0
    /\ sq_fresh = FALSE

\* The components below as they mount.
WidgetsIdle == ChoiceButtonsIdle /\ AutoAdvanceIdle /\ ChatIdle

InitSlider == SliderInit /\ SequencerIdle /\ ScreensIdle /\ WidgetsIdle
SpecSlider == InitSlider /\ [][SliderNext]_vars

InitSequencer == SequencerInit /\ SliderIdle /\ ScreensIdle /\ WidgetsIdle
SpecSequencer == InitSequencer /\ [][SequencerNext]_vars

\* The screens under app/onboarding/ on their own.
InitScreens == ScreensInit /\ SequencerOff /\ SliderIdle /\ WidgetsIdle
SpecScreens == InitScreens /\ [][ScreensNext]_vars

\* Either onboarding: the single screen with its sequencer, or the screens
\* under app/onboarding/.
InitWizards == InitSequencer \/ InitScreens

\* The screens of the flow, entered through the index screen or opened one
\* on its own.
InitHasty == (ScreensInit \/ ScreenAloneInit) /\ SequencerOff /\ SliderIdle /\ WidgetsIdle
\* onBackPress of the header of the initial or of the final screen while
\* the typing indicator of its message is on screen: router.back() pops the
\* screen, and the cleanup of AIMessage clears the timer of the delay only.
\* The user does so on the screen they opened on its own.
Screen_onBackPress_typing ==
    /\ ob_stack # <<>>
    /\ KindOf(Top) \in {"messages", "final"}
    /\ \E i \in 1..Len(ob_timers) :
          ob_timers[i].kind = "typing" /\ ob_timers[i].id = Top.id
    /\ ob_mounts = 1 /\ ob_entries = MaxEntries
    /\ ob_backs < MaxBacks
    /\ ob_backs' = ob_backs + 1
    /\ ObStep(Popped, ob_onboardingData, AfterPop(ob_timers))
    /\ UNCHANGED <<wgVars, slVars, sqVars, ob_style, ob_entries, ob_mounts, ob_chat,
                   ob_answered, ob_extra>>

\* The steps of the flow with a user who also leaves a screen while its
\* message is typing.
HastyNext == ScreensNext \/ Screen_onBackPress_typing

SpecHasty == InitHasty /\ [][HastyNext]_vars

WizardsNext == SequencerNext \/ ScreensNext
SpecWizards == InitWizards /\ [][WizardsNext]_vars

\* The choice buttons on their own.
InitChoiceButtons ==
    /\ ChoiceButtonsInit /\ AutoAdvanceIdle /\ ChatIdle
    /\ SliderIdle /\ SequencerIdle /\ ScreensIdle
SpecChoiceButtons == InitChoiceButtons /\ [][ChoiceButtonsNext]_vars

\* The auto-advancing slider card on its own.
InitAutoAdvance ==
    /\ AutoAdvanceInit /\ ChoiceButtonsIdle /\ ChatIdle
    /\ SliderIdle /\ SequencerIdle /\ ScreensIdle
SpecAutoAdvance == InitAutoAdvance /\ [][AutoAdvanceNext]_vars

\* The chat screen on its own; its timers fire.
InitChat ==
    /\ ChatInit /\ ChoiceButtonsIdle /\ AutoAdvanceIdle
    /\ SliderIdle /\ SequencerIdle /\ ScreensIdle
SpecChat == InitChat /\ [][ChatNext]_vars
SpecChatLive ==
    /\ SpecChat
    /\ WF_vars(ChatTick)
    /\ WF_vars(welcomeCallback \/ followUpDelayCallback \/ revealCallback)

(***************************************************************************)
(* CLAIMS ABOUT THE SEQUENCERS                                             *)
(***************************************************************************)

\* The answer record handed to the chat has every choice and a focus.
Complete(data) ==
    /\ data.conscientiousness.type # "null"
    /\ data.regulatoryFocus.type # "null"
    /\ data.locusOfControl.type # "null"
    /\ data.mindset.type # "null"
    /\ data.currentFocus.str # <<>>

\* Nothing is pending and the step on screen is one the user has answered:
\* a user who answers every step once does nothing more, and nothing happens.
AtRest ==
    /\ sq_mounted /\ sq_fetch = "ok"
    /\ sq_timers = <<>>
    /\ ShownNow \in sq_answered

\* C1: for a user who answers every step once, in the configured order, the
\* wizard completes (the navigation to the chat fires), and the answer record
\* it hands over has conscientiousness, regulatoryFocus, locusOfControl and
\* mindset non-null and a non-empty currentFocus.  In its finite form: such a
\* user is never left at rest on an answered step without the chat having
\* been opened, and every record handed to the chat is complete.  The claim is
\* about the configurations the repository serves.
C1_OnceThroughCompletes ==
    (sq_user = "once" /\ sq_onboardingConfig = RepositorySteps(sq_impl)) =>
        /\ AtRest => sq_chat # <<>>
        /\ \A i \in 1..Len(sq_chat) : Complete(ChatScreen_onboardingData(sq_chat[i]))

\* In the history sequencer the last transition is followed by a slider and
\* a messages step that moves on by itself: there the user is not left at rest.
HistoryOnceThroughCompletes == sq_impl = "history" => C1_OnceThroughCompletes

\* An advance request: a press of a choice or of Continue.
AdvanceRequest ==
    \/ \E choice \in UserChoices : handleCardChoice(choice)
    \/ handleSliderComplete

\* C2: an advance requested while the wizard is already transitioning (the
\* interaction state is 'selected' or 'transitioning') is rejected: it
\* neither writes to the answer record nor schedules another transition.
C2_AdvanceRejectedWhileTransitioning ==
    [][(AdvanceRequest /\ sq_interactionState \in {"selected", "transitioning"}) =>
            (sq_onboardingData' = sq_onboardingData /\ sq_timers' = sq_timers)]_vars

\* The step that is current is a step where the user acts.
OnInteractiveStep ==
    /\ sq_currentStepId \in StepIds(sq_impl)
    /\ TypeOf(sq_impl, sq_currentStepId) \in InteractiveTypes

\* C3: the current step never changes away from an interactive step unless
\* the user pressed a choice, Continue, submit or back during that visit to
\* it; timers started during an earlier step never move the wizard off an
\* interactive step.
C3_InteractiveStepWaitsForPress ==
    [][(OnInteractiveStep /\ sq_currentStepId' # sq_currentStepId) => sq_pressed]_vars

\* The same for the user who answers every step once and never presses back:
\* what moves the wizard then is a callback of an earlier transition step.
OnceThroughStepWaitsForPress ==
    [][(sq_user = "once" /\ OnInteractiveStep /\ sq_currentStepId' # sq_currentStepId)
            => sq_pressed]_vars

FirstStep == Steps(sq_impl)[1].id
SecondStep == Steps(sq_impl)[2].id

\* A press of the header's back button.
BackPressed == L_handleBackPress \/ H_handleBackPress

\* The moves back to the steps of targets that are pending among ts.
BackMoves(ts, targets) ==
    Cardinality({i \in 1..Len(ts) :
        ts[i].kind = "swap" /\ ts[i].by = "back" /\ ts[i].target \in targets})

\* The back press has set one move, to target, and has not invoked the
\* host's back.
MovesBackTo(target) ==
    /\ BackMoves(sq_timers', {target}) = BackMoves(sq_timers, {target}) + 1
    /\ BackMoves(sq_timers', StepIds(sq_impl)) = BackMoves(sq_timers, StepIds(sq_impl)) + 1
    /\ sq_routerBack' = sq_routerBack
    /\ sq_mounted'

\* The move a back press set falls due.
BackMoveDue == sq_mounted /\ Due("swap") /\ sq_timers[1].by = "back"

\* C4: pressing back while the second step is the current step makes the
\* first step the current step and leaves every answer field unchanged.
C4_BackOnSecondStep ==
    [][/\ (BackPressed /\ sq_currentStepId = SecondStep) =>
             (MovesBackTo(FirstStep) /\ sq_onboardingData' = sq_onboardingData)
       /\ (swapCallback /\ BackMoveDue /\ sq_timers[1].step = SecondStep) =>
             (sq_currentStepId' = FirstStep /\ sq_onboardingData' = sq_onboardingData)
      ]_vars

\* The linked sequencer takes every back press on its second step to the first.
LinkedBackOnSecondStep ==
    [][(L_handleBackPress /\ sq_currentStepId = SecondStep) =>
            (MovesBackTo(FirstStep) /\ sq_onboardingData' = sq_onboardingData)]_vars

\* No back press, in either sequencer, touches the answer record.
BackKeepsAnswers ==
    [][BackPressed => sq_onboardingData' = sq_onboardingData]_vars

\* The host's back was invoked, and the step stays.
HostBackOnly ==
    /\ sq_routerBack' = sq_routerBack + 1
    /\ sq_currentStepId' = sq_currentStepId
    /\ sq_timers' = sq_timers

\* previousStep as the current step declares it
DeclaredPrevious ==
    IF sq_currentStepId \in StepIds(sq_impl)
    THEN FindStep(sq_impl, sq_currentStepId).previousStep
    ELSE NoStep

FetchFailed == sq_fetch \in FetchOutcomes \ {"ok"}

\* C6: when fetching the configuration fails (network error or non-OK
\* response), the error screen is rendered once loading ends, and step
\* content is never rendered later in that screen's life.
C6_FailedFetchShowsError ==
    FetchFailed =>
        /\ ~sq_loading => ViewNow = "error"
        /\ ShownNow = NoStep

\* A request has ended with a response that is not OK, loading is over and
\* the error screen is up.
C6_ErrorScreenUp ==
    /\ sq_fetch = "notOk"
    /\ ~sq_loading
    /\ sq_error = "Failed to fetch onboarding configuration"
    /\ ViewNow = "error"

\* C7: pressing try-again on the error screen restarts loading from
\* scratch: the configuration is requested again, so that the screen comes to
\* show content or the error again and does not load forever.  In its finite
\* form: the loading screen is up only while a request is under way.
C7_LoadingHasRequestUnderWay ==
    sq_loading => sq_fetch = "pending"

\* The current step leads nowhere: it is no step of the list, or a step whose
\* nextStep is absent or names no step of the list.
Stalled ==
    /\ sq_mounted /\ sq_onboardingConfig # NoConfig
    /\ \/ sq_currentStepId \notin StepIds(sq_impl)
       \/ FindStep(sq_impl, sq_currentStepId).nextStep \notin StepIds(sq_impl)

\* C13: for a step whose nextStep is absent or names no step of the list,
\* advancing raises no error, and from then on the wizard makes no forward
\* transition to a step of the list: while the current step leads nowhere,
\* the error stays as it is and only a move set by a back press makes a step
\* of the list current.
C13_StalledStaysStalled ==
    [][(Stalled /\ sq_mounted') =>
          /\ sq_error' = sq_error
          /\ (sq_currentStepId' # sq_currentStepId /\ sq_currentStepId' \in StepIds(sq_impl))
                => BackMoveDue
      ]_vars

\* The wizard has advanced from a step whose nextStep names no step of the
\* list, and shows nothing.
C13_WentNowhere ==
    /\ sq_mounted /\ sq_onboardingConfig = Served(sq_impl, "nextUnknown")
    /\ sq_currentStepId = "nowhere"
    /\ sq_error = Null

\* The configuration arrives.
ConfigLoads == sq_onboardingConfig = NoConfig /\ sq_onboardingConfig' # NoConfig

\* C15: once the step configuration has loaded, the current step is the
\* first step of the loaded step list, whatever the id of that first step is.
C15_StartsAtFirstStep ==
    [][ConfigLoads => sq_currentStepId' = sq_onboardingConfig'[1].id]_vars

\* The history sequencer does start at the first step of whatever list loads.
HistoryStartsAtFirstStep ==
    [][(ConfigLoads /\ sq_impl = "history") =>
            sq_currentStepId' = sq_onboardingConfig'[1].id]_vars

\* The ids met by following nextStep from id through steps, n of them at most.
RECURSIVE Walk(_, _, _)
Walk(steps, id, n) ==
    IF n = 0 \/ ~(\E i \in 1..Len(steps) : steps[i].id = id) THEN <<>>
    ELSE LET step == steps[CHOOSE i \in 1..Len(steps) : steps[i].id = id]
         IN  <<id>> \o Walk(steps, step.nextStep, n - 1)

\* Following nextStep from the first step of steps visits every step exactly
\* once and ends at the single step that declares no nextStep.
WellLinked(steps) ==
    LET walk == Walk(steps, steps[1].id, Len(steps) + 1)
        ends == {i \in 1..Len(steps) : steps[i].nextStep = NoStep}
    IN  /\ Len(walk) = Len(steps)
        /\ \A i \in 1..Len(steps) :
              Cardinality({k \in 1..Len(walk) : walk[k] = steps[i].id}) = 1
        /\ Cardinality(ends) = 1
        /\ \A i \in ends : steps[i].id = walk[Len(walk)]

\* The configuration loaded is the one the repository serves.
RepositoryLoaded ==
    sq_mounted /\ sq_fetch = "ok" /\ sq_onboardingConfig = RepositorySteps(sq_impl)

\* C16: in each step configuration served by the repository, following
\* nextStep from the first step visits every step of the list exactly once and
\* ends at the single step that declares no nextStep: both served lists are so
\* linked, and so is the list a sequencer holds once it has loaded its own.
C16_ServedStepsAreOneChain ==
    /\ \A impl \in Impls : WellLinked(RepositorySteps(impl))
    /\ RepositoryLoaded => WellLinked(sq_onboardingConfig)

\* A sequencer holds the list the repository serves and shows its first step.
C16_RepositoryListLoaded ==
    /\ RepositoryLoaded
    /\ sq_showContent
    /\ sq_currentStepId = sq_onboardingConfig[1].id

\* The steps the current step declares an edge to.
DeclaredEdges ==
    IF sq_currentStepId \in StepIds(sq_impl)
    THEN {FindStep(sq_impl, sq_currentStepId).nextStep,
          FindStep(sq_impl, sq_currentStepId).previousStep} \ {NoStep}
    ELSE {}

\* C19: every change of the current step follows a declared edge of the step
\* that is current at the moment of the change: whenever the linked
\* sequencer, holding the list the repository serves, changes its current
\* step from A to B, B is A's nextStep or A's previousStep.
C19_StepChangesFollowEdges ==
    [][(/\ sq_impl = "linked" /\ RepositoryLoaded
        /\ sq_mounted' /\ sq_onboardingConfig' = sq_onboardingConfig
        /\ sq_currentStepId' # sq_currentStepId) =>
            sq_currentStepId' \in DeclaredEdges]_vars

\* The chains of timers (delay, typing indicator, wait, move) pending that
\* the element of step started: each ends in one transition to its nextStep.
AutoChains(step) ==
    Cardinality({i \in 1..Len(sq_timers) :
        sq_timers[i].by = "auto" /\ sq_timers[i].step = step})

AutoTypes == TransitionTypes \cup {"messages"}

\* C20: each visit to an auto-progressing step (message sequence or
\* transition banner) schedules exactly one transition to its nextStep, no
\* matter how many times the screen re-renders while that step is displayed.
\* For the user who answers every step once and never goes back, who visits
\* every step once: no auto-progressing step ever has two chains pending.
C20_OneTransitionPerVisit ==
    (sq_user = "once" /\ RepositoryLoaded) =>
        \A step \in StepIds(sq_impl) :
            TypeOf(sq_impl, step) \in AutoTypes => AutoChains(step) <= 1

\* C11: when the wizard completes, the answer record the chat screen obtains
\* by deserializing its navigation parameter equals, field for field, the
\* answer record the wizard held when the submit press was accepted.
C11_ChatGetsAcceptedRecord ==
    \A i \in 1..Len(sq_chat) :
        ChatScreen_onboardingData(sq_chat[i]) = ValuesOf(sq_chat[i].accepted)

\* The same for the records in which every number is finite.
FiniteRecordsArrive ==
    \A i \in 1..Len(sq_chat) :
        (\A f \in NumberFields : ~sq_chat[i].accepted[f].nan) =>
            ChatScreen_onboardingData(sq_chat[i]) = ValuesOf(sq_chat[i].accepted)

\* A setCurrentStepId of navigateToStep is pending.
MovePending == \E i \in 1..Len(sq_timers) : sq_timers[i].kind = "swap"

\* The ids of the loaded steps that come before the step of the given id.
StepsBefore(stepId) ==
    LET ids == [i \in 1..Len(Steps(sq_impl)) |-> Steps(sq_impl)[i].id]
        at == CHOOSE i \in 1..Len(ids) : ids[i] = stepId
    IN  SubSeq(ids, 1, at - 1)

\* A callback of the history sequencer calls navigateToStep with
\* addToHistory.
ForwardAppends ==
    /\ sq_impl = "history" /\ sq_mounted /\ sq_timers # <<>>
    /\ sq_timers[1].left = 0
    /\ sq_timers[1].kind \in {"autoWait", "choiceWait", "sliderWait"}
    /\ sq_stepHistory' # sq_stepHistory

\* The last entry of stepHistory is removed and becomes the target of the
\* move.
BackPops ==
    /\ sq_stepHistory' = SubSeq(sq_stepHistory, 1, Len(sq_stepHistory) - 1)
    /\ MovesBackTo(sq_stepHistory[Len(sq_stepHistory)])

\* The mounted history sequencer shows a step of the loaded list and no
\* move is pending.
AtRestOnLoadedStep ==
    /\ sq_impl = "history" /\ sq_mounted /\ sq_onboardingConfig # NoConfig
    /\ ~MovePending
    /\ \E i \in 1..Len(Steps(sq_impl)) : Steps(sq_impl)[i].id = sq_currentStepId

\* C25: in the history sequencer stepHistory is a stack: each forward
\* transition appends the step being left exactly once, and each back press
\* removes the last entry and makes it the current step, so that n back
\* presses after n forward transitions from the first step restore the first
\* step with an empty history.  A forward navigateToStep appends the current
\* step, a back press pops the entry it goes to, and whenever no move is
\* pending the history holds exactly the steps before the current one.
C25_HistoryIsStack ==
    /\ [][/\ ForwardAppends => sq_stepHistory' = Append(sq_stepHistory, sq_currentStepId)
          /\ (H_handleBackPress /\ sq_stepHistory # <<>>) => BackPops]_vars
    /\ [](AtRestOnLoadedStep => sq_stepHistory = StepsBefore(sq_currentStepId))

(***************************************************************************)
(* CLAIMS ABOUT THE SCREENS OF THE FLOW                                    *)
(***************************************************************************)

\* C21: on the final screen, once a submit press has been accepted
\* (interaction state 'submitting'), no further submit press is accepted and
\* the navigation to the chat screen is performed exactly once, whatever
\* focus, blur or message-completion events occur before that navigation: no
\* submit is accepted on a screen that has accepted one, and no second
\* navigation to the chat is performed.
C21_SubmitAcceptedOnce ==
    [][/\ FinalScreen_handleFinalSubmit => ~Top.pressed
       /\ routerReplace => ob_chat = <<>>]_vars

\* The timers that end in a push pending for the screen on top.
PushesPending ==
    Cardinality({i \in 1..Len(ob_timers) :
        ob_timers[i].id = Top.id /\ ob_timers[i].kind \in {"answered", "push"}})

\* C22: on the extraversion and agreeableness screens, once Continue has been
\* pressed the button stays disabled until navigation happens, so navigation
\* to the next screen is scheduled at most once per visit even if the slider
\* is touched or released in the meantime: no Continue is accepted on a
\* screen that has accepted one, and a slider screen never has two
\* navigations pending.
C22_ContinueAcceptedOnce ==
    /\ [][Screen_handleSliderComplete => ~Top.pressed]_vars
    /\ []((ob_stack # <<>> /\ KindOf(Top) = "slider") => PushesPending <= 1)

\* C23: on each choice screen of the flow (conscientiousness, regulatory
\* focus, locus of control), once a card press has been accepted both cards
\* stay disabled until navigation: exactly one value is written to the
\* screen's field and navigation to the next screen is scheduled exactly once
\* per visit.  No card press is accepted on a screen that has accepted one,
\* and a choice screen never has two navigations pending.
C23_CardAcceptedOnce ==
    /\ [][(\E choice \in UserChoices : Screen_handleCardChoice(choice))
            => ~Top.pressed]_vars
    /\ []((ob_stack # <<>> /\ KindOf(Top) = "choice") => PushesPending <= 1)

\* C24: AIMessage cancels its timers on unmount: after the screen that
\* holds it has unmounted, at whatever stage of the message, its onComplete
\* is never invoked.  The onComplete of an AIMessage runs only for a screen
\* that is mounted.
C24_NoCompleteAfterUnmount ==
    [][(InitialScreen_onComplete \/ handleMessagesComplete)
          => Mounted(ob_timers[1].id)]_vars

(***************************************************************************)
(* CLAIMS ABOUT THE CHOICE BUTTONS, THE AUTO-ADVANCE AND THE CHAT          *)
(***************************************************************************)

\* The calls of onChoice so far.
Chosen == SelectSeq(cb_calls, LAMBDA c : c.fn = "onChoice")

\* C26: OnboardingChoiceButtons takes at most one choice per mount: onChoice
\* is invoked exactly once, with the choice of the first press, and later
\* presses are ignored.  Before a press nothing is called or pending; after
\* the first press exactly one onChoice is pending or has been called, with
\* that press's choice; a press on a component that has a choice changes
\* nothing.
C26_OneChoicePerMount ==
    /\ [](Len(Chosen) + Len(cb_timers) = IF cb_first = Null THEN 0 ELSE 1)
    /\ [](\A i \in 1..Len(Chosen) : Chosen[i].arg = cb_first)
    /\ [](\A i \in 1..Len(cb_timers) : cb_timers[i].choice = cb_first)
    /\ [][((handlePromotionPress \/ handlePreventionPress) /\ cb_selectedChoice # Null)
            => UNCHANGED <<cb_selectedChoice, cb_timers, cb_calls>>]_vars

\* The press of promotion was taken, onChoice has been called with it, and
\* the press of prevention that came after it was handled too.
C26_SecondPressIgnored ==
    /\ cb_first = "promotion"
    /\ cb_touch["prevention"] = "pressed"
    /\ cb_timers = <<>>
    /\ Chosen = <<Call("onChoice", "promotion")>>

\* C27: the auto-advancing slider card has at most one auto-advance timer
\* pending: a new release cancels the timer of the release before, the
\* unmount cancels the pending timer, and onAutoAdvance is invoked at most
\* once after the final release and never after the unmount.
C27_OneAutoAdvanceTimer ==
    /\ Len(aa_timers) <= 1
    /\ aa_sinceRelease <= 1
    /\ ~aa_mounted => aa_timers = <<>>
    /\ ~aa_afterUnmount

\* A second release came while the timer of the first was pending, and
\* onAutoAdvance has been called once, after the second.
C27_SecondReleaseAdvanced ==
    /\ aa_releases = 2
    /\ aa_advances = 1
    /\ aa_sinceRelease = 1
    /\ aa_mounted

\* How many messages have the id.
Count(id) == Cardinality({i \in 1..Len(ch_messages) : ch_messages[i].id = id})

\* The chat screen received a currentFocus that is not empty.
HasFocus == ch_onboardingData.some /\ Truthy(ch_onboardingData.currentFocus)

\* The welcome sequence has nothing pending.
WelcomeOver ==
    \A i \in 1..Len(ch_timers) :
        /\ ch_timers[i].kind \notin {"welcome", "followUpDelay"}
        /\ ch_timers[i].id # followUpMessageId

\* C28: the welcome sequence of the chat screen runs exactly once per mount,
\* however often the screen renders: there is exactly one welcome message,
\* and exactly one follow-up message if and only if the currentFocus
\* received is not empty.
C28_WelcomeOnce ==
    /\ Count(welcomeMessageId) = 1
    /\ Count(followUpMessageId) <= 1
    /\ Count(followUpMessageId) = 1 => HasFocus
    /\ WelcomeOver => Count(followUpMessageId) = IF HasFocus THEN 1 ELSE 0

\* The screen has rendered anew for a message the user sent, and the welcome
\* sequence has ended with its follow-up shown.
C28_FollowUpShownAfterRenders ==
    /\ ch_now > 1
    /\ WelcomeOver
    /\ \E i \in 1..Len(ch_messages) :
          ch_messages[i].id = followUpMessageId /\ ~ch_messages[i].isLoading

\* The ids of the placeholders: those handleSendMessage can make, and those
\* of the welcome sequence.
PlaceholderIds ==
    {MessageId(time, "-ai") : time \in 1..MaxSends}
        \cup {welcomeMessageId, followUpMessageId}

\* The message of the id is a placeholder that is loading; it has been
\* replaced by a message that is not.
Loading(id) ==
    \E i \in 1..Len(ch_messages) : ch_messages[i].id = id /\ ch_messages[i].isLoading
Replaced(id) ==
    \E i \in 1..Len(ch_messages) : ch_messages[i].id = id /\ ~ch_messages[i].isLoading

\* C29: every loading AI placeholder of the chat is eventually replaced by a
\* message that is not loading and that carries the response computed when
\* the placeholder was made; a message that is not loading never returns to
\* loading.
C29_PlaceholdersResolve ==
    /\ \A id \in PlaceholderIds : Loading(id) ~> Replaced(id)
    /\ [](\A i \in 1..Len(ch_messages) :
            (~ch_messages[i].isUser /\ ~ch_messages[i].isLoading) =>
                ch_messages[i].text = ch_computed[ch_messages[i].id])
    /\ [][\A i \in 1..Len(ch_messages) :
            ~ch_messages[i].isLoading => ~ch_messages'[i].isLoading]_vars

\* The placeholders of two sends have been replaced, the second with a
\* response that differs from the first's.
C29_TwoResponsesShown ==
    /\ Replaced(MessageId(1, "-ai")) /\ Replaced(MessageId(2, "-ai"))
    /\ ch_computed[MessageId(1, "-ai")] # ch_computed[MessageId(2, "-ai")]
    /\ ch_timers = <<>>

\* The messages before are all there, in their places.
MessagesKept ==
    /\ Len(ch_messages') >= Len(ch_messages)
    /\ \A i \in 1..Len(ch_messages) : ch_messages'[i].id = ch_messages[i].id

\* C30: a send whose text is blank adds no message; a send whose text is
\* not blank appends exactly two messages, the user's trimmed text and then
\* one loading AI placeholder; no step removes or reorders the messages that
\* are there.
C30_SendAppendsTwo ==
    [][/\ MessagesKept
       /\ handleSendMessage =>
             IF Trim(ch_inputText) = <<>>
             THEN ch_messages' = ch_messages
             ELSE /\ Len(ch_messages') = Len(ch_messages) + 2
                  /\ SubSeq(ch_messages', 1, Len(ch_messages)) = ch_messages
                  /\ ch_messages'[Len(ch_messages) + 1].isUser
                  /\ ch_messages'[Len(ch_messages) + 1].text = Trim(ch_inputText)
                  /\ ~ch_messages'[Len(ch_messages) + 2].isUser
                  /\ ch_messages'[Len(ch_messages) + 2].isLoading
      ]_vars

\* The send button was pressed on a blank text and on the text " a": the
\* messages are the welcome message, the user's "a" and a placeholder.
C30_BlankAndTrimmedSent ==
    /\ ch_presses = 2
    /\ ch_now = 2
    /\ Len(ch_messages) = 3
    /\ ch_messages[2].isUser /\ ch_messages[2].text = <<"a">>
    /\ ch_messages[3].isLoading

(***************************************************************************)
(* CLAIMS ABOUT THE ANSWER RECORD                                          *)
(***************************************************************************)

\* The records the chat screen has been handed, by either onboarding.
HandedOver ==
    {ChatScreen_onboardingData(sq_chat[i]) : i \in 1..Len(sq_chat)}
        \cup {ChatScreen_onboardingData(ob_chat[i]) : i \in 1..Len(ob_chat)}

\* A text that is neither empty nor whitespace only.
NotBlank(v) == v.type = "string" /\ Trim(v.str) # <<>>

\* Every field of the record but field keeps its value.
OthersKept(old, new, field) ==
    /\ DOMAIN new = DOMAIN old
    /\ \A f \in DOMAIN old : f # field => new[f] = old[f]

\* C14: answering a step changes only the answer-record field bound to that
\* step: whenever the record changes while a sequencer shows a step, or while
\* a screen of the flow is on top, every field but the one bound to that step
\* or screen keeps the value it had immediately before.
C14_AnswerChangesOnlyBoundField ==
    [][/\ (sq_mounted /\ sq_mounted' /\ sq_fetch = "ok"
            /\ sq_onboardingData' # sq_onboardingData) =>
              /\ ShownNow # NoStep
              /\ OthersKept(sq_onboardingData, sq_onboardingData',
                            FindStep(sq_impl, ShownNow).field)
       /\ (ob_stack # <<>> /\ ob_entries' = ob_entries
            /\ ob_onboardingData' # ob_onboardingData) =>
              OthersKept(ob_onboardingData, ob_onboardingData',
                         ScreenOf(Top.route).field)
      ]_vars

\* A second answer has been written into a record that held a first one.
C14_TwoFieldsAnswered ==
    /\ ob_stack # <<>>
    /\ ob_onboardingData.conscientiousness # Null
    /\ ob_onboardingData.regulatoryFocus # Null

\* C17: entering the onboarding flow through its index screen discards all
\* previously recorded answers: afterwards every field other than
\* coachingStyle has its default value, and coachingStyle equals the style
\* passed to the index screen (null when none was passed).
C17_IndexEntryDiscardsAnswers ==
    [][ob_entries' # ob_entries =>
          ob_onboardingData' =
              [initialOnboardingData EXCEPT !.coachingStyle = ob_style']]_vars

\* The flow has been entered a second time, over a screen whose question was
\* answered during the first, and the record holds no answer.
C17_EnteredAgain ==
    /\ ob_entries = 2
    /\ \E i \in 1..Len(ob_stack) : ob_stack[i].pressed
    /\ ob_onboardingData.conscientiousness = Null

\* The answers of the record are the defaults: 50 for the numbers, null for
\* the choices, the empty string for the text.
Defaults(data) ==
    /\ data.extraversion = Num(50) /\ data.agreeableness = Num(50)
    /\ data.conscientiousness = Null /\ data.regulatoryFocus = Null
    /\ data.locusOfControl = Null /\ data.mindset = Null
    /\ data.currentFocus = <<>>

\* C18: when the wizard starts, before any answer is given, extraversion and
\* agreeableness are both 50, the four choices are null and currentFocus is
\* the empty string: the record starts with these values, every entry
\* through the index screen and every restart of a sequencer brings them
\* back, and they stay until a step that takes an answer is on screen.
C18_StartsWithDefaults ==
    /\ Defaults(sq_onboardingData) /\ Defaults(ob_onboardingData)
    /\ [][/\ (Defaults(sq_onboardingData) /\ ~Touchable(InteractiveTypes)) =>
                Defaults(sq_onboardingData')
          /\ (Defaults(ob_onboardingData) /\ ~Asking({"choice", "slider", "final"})) =>
                Defaults(ob_onboardingData')
          /\ (ob_entries' # ob_entries \/ L_tryAgain) =>
                (Defaults(ob_onboardingData') /\ Defaults(sq_onboardingData'))
         ]_vars

\* The history sequencer has merged the initialData of its configuration
\* into the record and shows its first step; no answer has been given.
C18_LoadedWithDefaults ==
    /\ sq_impl = "history" /\ sq_mounted /\ sq_fetch = "ok"
    /\ sq_showContent /\ sq_currentStepId = "welcome_messages"
    /\ sq_answered = {}
    /\ Defaults(sq_onboardingData)

\* C12: the wizard never completes with blank text: whenever the navigation
\* to the chat screen fires, the currentFocus of the answer record handed
\* over is neither empty nor whitespace only.
C12_NeverCompletesBlank ==
    \A data \in HandedOver : NotBlank(data.currentFocus)

\* Both onboardings can complete, and the final screen hands over a text it
\* has trimmed.
C12_FinalScreenCompleted ==
    /\ ob_chat # <<>>
    /\ ob_stack # <<>> /\ Top.route = "chat"
    /\ ob_chat[1].onboardingData.currentFocus.str = <<"a">>

SequencerCompleted == sq_chat # <<>> /\ sq_impl = "history"

(***************************************************************************)
(* CLAIMS ABOUT THE SLIDER                                                 *)
(***************************************************************************)

\* C8: every value passed to the value-change callback, on drag start or
\* drag move, measured or not, is an integer between 0 and 100 inclusive.
C8_ReportedInRange ==
    sl_last.some => (~sl_last.v.nan /\ sl_last.v.n \in 0..100)

\* C9: reported values are monotonic in pointer position: of two reports made
\* on the same track, the one for the smaller pointer offset is not larger.
C9_MonotonicInPointer ==
    (sl_kept.some /\ sl_last.some /\ sl_kept.w = sl_last.w /\ sl_last.w > 0
        /\ ~sl_kept.v.nan /\ ~sl_last.v.nan) =>
        /\ (sl_kept.x <= sl_last.x => sl_kept.v.n <= sl_last.v.n)
        /\ (sl_last.x <= sl_kept.x => sl_last.v.n <= sl_kept.v.n)

\* C10: on a track of width W > 0 every drag start and drag move with pointer
\* local offset x reports round(100 * min(max(x, 0), W) / W).
C10_ReportedIsRoundedClamp ==
    (sl_last.some /\ sl_last.w > 0) =>
        LET clamped == Min(Max(sl_last.x, 0), sl_last.w)
        IN  sl_last.v = Num((200 * clamped + sl_last.w) \div (2 * sl_last.w))

\* Seen alone, the drag-move reports of every variant do satisfy C9 and C10.
MoveReportsMonotonic ==
    (sl_kept.on = "move" /\ sl_last.on = "move") => C9_MonotonicInPointer
MoveReportsRoundedClamp ==
    sl_last.on = "move" => C10_ReportedIsRoundedClamp

=============================================================================
